---------------------------- MODULE Spec2Model ----------------------------
(***************************************************************************)
(* State-machine model of the document interchange subsystem of RUI:       *)
(*   - the PDF content extractor (extractPdfWithPages,                     *)
(*     extractImagesFromPage, imageDataToDataUrl);                         *)
(*   - the paginated PDF renderers (exportFinalReportToPdf,                *)
(*     exportPairwiseComparisonsToPdf).                                    *)
(*                                                                         *)
(* Strings whose characters matter (page text, fullText) are sequences of  *)
(* one-character strings.  Lengths on the page are integers in hundredths  *)
(* of a point (1 pt = 100), so that 9 * 1.4 = 12.6 pt is 1260.             *)
(***************************************************************************)
EXTENDS Integers, Sequences, FiniteSets, TLC

VARIABLES
  \* ---- extractPdfWithPages ----
  epc,          \* position in extractPdfWithPages
  opened,       \* the document has been opened (task.promise resolved)
  numPages,     \* pdf.numPages
  pageNum,      \* loop variable pageNum
  pageText,     \* pageText of the page being processed
  pages,        \* the pages array being built
  fullText,     \* the fullText accumulator
  result,       \* the value returned (pages, trimmed fullText)
  failedAt,     \* the awaited call whose rejection ended the extraction
  pageItems,    \* per page: the text items getTextContent answered
  opListFailed, \* per page: getOperatorList rejected for that page
                \* (failedAt, pageItems, opListFailed are kept for the
                \* properties, the code does not read them)
  \* ---- extractImagesFromPage, one operator at a time ----
  spc,          \* position in extractImagesFromPage
  opLen,        \* operatorList.fnArray.length
  opIdx,        \* loop variable i
  seenImages,   \* the Set seenImages, in insertion order
  images,       \* the images array being built
  lastOp,       \* the operator handled by the last loop iteration
  failedNames,  \* names whose first occurrence on this page failed to resolve
                \* or decode (kept for the properties, not read by the code)
  lookups,      \* the names page.objs.get was called with, in order (kept
                \* for the properties, not read by the code)
  \* ---- exportFinalReportToPdf / exportPairwiseComparisonsToPdf ----
  rpc,          \* position in the export function
  profile,      \* "report" (exportFinalReportToPdf) or "pairwise"
  y,            \* the cursor y
  pdfPages,     \* pdf.getNumberOfPages(); content goes to the last page
  lineNo,       \* report: number of markdown lines handled (loop variable i)
  inCodeBlock,  \* report: inCodeBlock
  codeBlockContent, \* report: codeBlockContent
  placed,       \* what the last step drew: kind, tag, page, y, bot, x
  totalPages,   \* totalPages of the footer pass
  stampIdx,     \* loop variable i of the footer pass
  footers,      \* footers drawn: page, and the "Page num of total" they read
  headers,      \* headers drawn: page
  saved,        \* pdf.save was called
  comparisonsList, \* pairwise: per comparison, its isRelated
  recNo,        \* pairwise: loop variable i of the loop over the comparisons
  \* ---- two invocations of exportFinalReportToPdf on one input ----
  markdown,     \* the lines of the markdown argument
  run,          \* which invocation is running
  log,          \* everything the running invocation drew, in order
  first,        \* what the first invocation produced
  \* ---- the file name passed to pdf.save ----
  articleTitle, \* the articleTitle argument ("" and undefined: <<>>)
  fileName,     \* the fileName argument
  savedAs,      \* the name the last pdf.save was called with
  \* ---- MaintenanceWrapper ----
  mpc,          \* where the component is in its life: mount, effect, render
  nodeEnv,      \* process.env.NODE_ENV
  maintenanceMode, \* MAINTENANCE_MODE of the build
  bypassValue,  \* sessionStorage.getItem(BYPASS_KEY)
  bypassed,     \* state bypassed
  checked,      \* state checked
  view,         \* what the last render returned
  \* ---- classification of one markdown line ----
  cpc,          \* the line has been classified
  mdLine,       \* the line, outside a code block
  lineKind,     \* the branch of the loop body the line took
  \* ---- CallbackClient (the Mendeley OAuth callback page) ----
  cbpc,         \* where the page is: not opened, mounted, exchanging, ended
  cbCode,       \* params.get("code")
  cbState,      \* params.get("state")
  expectedState, \* localStorage item rui.mendeley.state
  ruiState,     \* localStorage item rui.state.v1
  exchangeSent, \* the POST to /api/mendeley/exchange was sent
  cbStatus,     \* state status
  cbError,      \* state error (null: "")
  \* ---- MaintenancePage (the keypad) ----
  kpc,          \* the page is not shown, shown, or being reloaded
  secretCode,   \* SECRET_CODE of the build
  keyCode,      \* state code, the digits entered
  attempts,     \* state attempts
  keyError,     \* state error
  locked,       \* state locked
  lastKey,      \* the key pressed last (kept for the properties)
  \* ---- usePersistedState ----
  hpc,          \* position of the component using the hook
  store,        \* localStorage: the string (or null) under each key
  blocked,      \* localStorage throws on every access
  hydrated,     \* state hydrated of the last commit
  value,        \* state value of the last commit
  queued,       \* the state updates not yet rendered
  origin,       \* where value comes from: the default, the storage, a setter
  loaded,       \* what the storage held under the key at mount
  reads,        \* number of localStorage.getItem(key) calls
  sets,         \* number of setValue calls of the component
  lastWrite,    \* the last localStorage.setItem call
  \* ---- Home: runStructured, runCompare, runFinal ----
  runs,         \* the invocations: position, completed, timeouts still set
  busy,         \* state busy (null: "")
  logMessages,  \* state logMessages, the activity log
  started       \* number of invocations started

evars == <<epc, opened, numPages, pageNum, pageText, pages, fullText, result,
           failedAt, pageItems, opListFailed>>
svars == <<spc, opLen, opIdx, seenImages, images, lastOp, failedNames, lookups>>
rvars == <<rpc, profile, y, pdfPages, lineNo, inCodeBlock, codeBlockContent,
           placed, totalPages, stampIdx, footers, headers, saved,
           comparisonsList, recNo>>
tvars == <<markdown, run, log, first>>
fvars == <<articleTitle, fileName, savedAs>>
mvars == <<mpc, nodeEnv, maintenanceMode, bypassValue, bypassed, checked, view>>
cvars == <<cpc, mdLine, lineKind>>
avars == <<cbpc, cbCode, cbState, expectedState, ruiState, exchangeSent,
           cbStatus, cbError>>
\* the components of the application around the document subsystem
kvars == <<kpc, secretCode, keyCode, attempts, keyError, locked, lastKey>>
pvars == <<hpc, store, blocked, hydrated, value, queued, origin, loaded, reads,
           sets, lastWrite>>
bvars == <<runs, busy, logMessages, started>>
xvars == <<avars, kvars, pvars, bvars>>
\* the components outside the document subsystem
ovars == <<mvars, cvars, xvars>>
vars == <<evars, svars, rvars, tvars, fvars, ovars>>

(***************************************************************************)
(* Bounds of the model.                                                    *)
(***************************************************************************)
MaxPages == 2
MaxOps == 3
MaxLines == 3
MaxWrap == 47
MaxTwiceLines == 3
MaxTitle == 4
MaxKeyed == 3
MaxSets == 2
MaxProgress == 2
MaxRuns == 2

(***************************************************************************)
(* Character strings.                                                      *)
(***************************************************************************)
IsSpace(c) == c \in {" ", "\n", "\t"}

RECURSIVE TrimStart(_)
TrimStart(s) ==
  IF s = <<>> THEN s
  ELSE IF IsSpace(Head(s)) THEN TrimStart(Tail(s)) ELSE s

RECURSIVE TrimEnd(_)
TrimEnd(s) ==
  IF s = <<>> THEN s
  ELSE IF IsSpace(s[Len(s)]) THEN TrimEnd(SubSeq(s, 1, Len(s) - 1)) ELSE s

\* String.prototype.trim
Trim(s) == TrimEnd(TrimStart(s))

\* Array.prototype.join
RECURSIVE Join(_, _)
Join(strs, sep) ==
  IF strs = <<>> THEN <<>>
  ELSE IF Len(strs) = 1 THEN strs[1]
  ELSE strs[1] \o sep \o Join(Tail(strs), sep)

(***************************************************************************)
(* Text content of a page: content.items is an array of unknown values.    *)
(* An item is a text item carrying a string, an object without a string    *)
(* str, or no object at all.                                               *)
(***************************************************************************)
StrItem(s) == [isObj |-> TRUE, hasStr |-> TRUE, str |-> s]
NoStrItem == [isObj |-> TRUE, hasStr |-> FALSE, str |-> <<>>]
NotObjItem == [isObj |-> FALSE, hasStr |-> FALSE, str |-> <<>>]

\* the callback of content.items.map
ItemString(it) == IF it.isObj /\ it.hasStr THEN it.str ELSE <<>>

RECURSIVE ItemStringsUnfiltered(_)
ItemStringsUnfiltered(items) ==
  IF items = <<>> THEN <<>>
  ELSE <<ItemString(Head(items))>> \o ItemStringsUnfiltered(Tail(items))
\* .map(...).filter(Boolean): the empty string is falsy
RECURSIVE ItemStrings(_)
ItemStrings(items) ==
  IF items = <<>> THEN <<>>
  ELSE LET s == ItemString(Head(items))
       IN IF s = <<>> THEN ItemStrings(Tail(items))
          ELSE <<s>> \o ItemStrings(Tail(items))

\* strings.join(" ")
FragmentSeparator == <<" ">>
PageTextOf(items) == Join(ItemStrings(items), FragmentSeparator)

\* the text contents a page is given in the model
TextContents ==
  { <<>>,
    <<StrItem(<<"a">>)>>,
    <<StrItem(<<"a">>), StrItem(<<"b">>)>>,
    <<StrItem(<<>>), NotObjItem, StrItem(<<"b">>)>>,
    <<StrItem(<<" ">>), StrItem(<<"a">>)>>,
    <<StrItem(<<"a">>), NoStrItem, StrItem(<<"\n">>)>> }

(***************************************************************************)
(* Operator lists.  An operator is its code fn, its first argument (the    *)
(* image-resource name, "" when absent) and what the environment answers   *)
(* when the scan asks for the image: page.objs.get, page.commonObjs.get    *)
(* and the canvas used by imageDataToDataUrl.                              *)
(***************************************************************************)
OPS_PAINT_IMAGE_XOBJECT == 85
OPS_PAINT_IMAGE_XOBJECT_REPEAT == 86
OPS_PAINT_JPEG_XOBJECT == 82

MinImageSize == 50

PaintOps ==
  {OPS_PAINT_IMAGE_XOBJECT, OPS_PAINT_IMAGE_XOBJECT_REPEAT, OPS_PAINT_JPEG_XOBJECT}

IsPaintImage(fn) ==
  \/ fn = OPS_PAINT_IMAGE_XOBJECT
  \/ fn = OPS_PAINT_IMAGE_XOBJECT_REPEAT
  \/ fn = OPS_PAINT_JPEG_XOBJECT

ImageNames == {"Im1", "Im2"}

\* (width, height) of the image objects of the model
ImageSizes ==
  { <<40, 40>>, <<60, 80>>, <<50, 50>>, <<49, 50>>, <<80, 49>>, <<0, 60>> }

\* what objs.get / commonObjs.get answers
LookupThrows == [res |-> "throws", hasData |-> FALSE, width |-> 0, height |-> 0]
LookupNull == [res |-> "null", hasData |-> FALSE, width |-> 0, height |-> 0]
LookupObj(d, w, h) == [res |-> "obj", hasData |-> d, width |-> w, height |-> h]

\* objects without pixel data or too small, and objects that qualify
SmallObjs ==
  {LookupObj(FALSE, 60, 80)}
  \cup {LookupObj(TRUE, wh[1], wh[2]) :
          wh \in {s \in ImageSizes : s[1] < MinImageSize \/ s[2] < MinImageSize}}
LargeObjs ==
  {LookupObj(TRUE, wh[1], wh[2]) :
     wh \in {s \in ImageSizes : s[1] >= MinImageSize /\ s[2] >= MinImageSize}}

\* what the canvas does in imageDataToDataUrl: "url" a data URL is produced,
\* "noctx" getContext("2d") is null, "throws" a canvas call throws
DecodeOutcomes == {"url", "noctx", "throws"}

Op(fn, name, local, common, decode) ==
  [fn |-> fn, name |-> name, local |-> local, common |-> common, decode |-> decode]

\* an operator that paints no image (any other code of the list)
NoOp == Op(OPS_PAINT_IMAGE_XOBJECT - 1, "", LookupNull, LookupNull, "url")

\* operators whose image is in commonObjs only as pixel data: objs.get
\* throws, or answers an object without data
FallbackInputs ==
  {Op(OPS_PAINT_IMAGE_XOBJECT, n, l, LookupObj(TRUE, 60, 80), "url") :
     n \in ImageNames, l \in {LookupThrows, LookupObj(FALSE, 60, 80)}}

\* the operators an operator list is made of (answers that are never asked
\* for are fixed: commonObjs unless objs answered null, the canvas unless the
\* image is decoded)
OpInputs ==
  {NoOp}
  \cup {Op(fn, "", LookupNull, LookupNull, "url") : fn \in PaintOps}
  \cup {Op(fn, n, LookupThrows, LookupNull, "url") : fn \in PaintOps, n \in ImageNames}
  \cup {Op(fn, n, LookupNull, c, "url") :
          fn \in PaintOps, n \in ImageNames, c \in {LookupThrows, LookupNull}}
  \cup {Op(fn, n, l, LookupNull, "url") :
          fn \in PaintOps, n \in ImageNames, l \in SmallObjs}
  \cup {Op(fn, n, LookupNull, c, "url") :
          fn \in PaintOps, n \in ImageNames, c \in SmallObjs}
  \cup {Op(fn, n, l, LookupNull, d) :
          fn \in PaintOps, n \in ImageNames, l \in LargeObjs, d \in DecodeOutcomes}
  \cup {Op(fn, n, LookupNull, c, d) :
          fn \in PaintOps, n \in ImageNames, c \in LargeObjs, d \in DecodeOutcomes}
  \cup FallbackInputs

(***************************************************************************)
(* extractImagesFromPage: one iteration of the scan loop (lines 79-127).   *)
(* The scan state is the images array, the Set seenImages (a JavaScript    *)
(* Set keeps insertion order) and whether the loop was left.               *)
(***************************************************************************)
ScanState(imgs, seen, left) == [images |-> imgs, seen |-> seen, left |-> left]

InSeq(x, s) == \E i \in 1..Len(s) : s[i] = x

\* seenImages.has(imageName)
AlreadySeenNever(seen, name) == FALSE
AlreadySeen(seen, name) == InSeq(name, seen)

\* imgData.width < 50 || imgData.height < 50
TooSmallBoth(w, h) == w < MinImageSize /\ h < MinImageSize
TooSmall(w, h) == w < MinImageSize \/ h < MinImageSize

\* the data URL imageDataToDataUrl produces for the pixels of resource name
DataUrlOf(name) == <<"data:image/png", name>>

\* the object pushed to images
ExtractedImageSwapped(name, w, h) ==
  [dataUrl |-> DataUrlOf(name), width |-> h, height |-> w]
ExtractedImage(name, w, h) ==
  [dataUrl |-> DataUrlOf(name), width |-> w, height |-> h]

\* the inner catch block: the exception is dropped and the loop goes on
OnImageErrorLeave(st) == [st EXCEPT !.left = TRUE]
OnImageError(st) == st

\* the value of imgData after the two lookups (LookupThrows: one of them threw)
Resolved(op) ==
  IF op.local.res = "throws" THEN LookupThrows
  ELSE IF op.local.res = "null" THEN op.common
  ELSE op.local

\* imgData?.data && imgData.width && imgData.height
HasPixels(img) == img.res = "obj" /\ img.hasData /\ img.width # 0 /\ img.height # 0

\* lines 82-93: the iteration reaches page.objs.get(imageName)
LooksUp(st, op) ==
  /\ ~st.left /\ IsPaintImage(op.fn)
  /\ op.name # "" /\ ~AlreadySeen(st.seen, op.name)

\* lines 82-125: the loop body for one operator
ScanStepSeenOnPush(st, op) ==
  IF st.left \/ ~IsPaintImage(op.fn) THEN st
  ELSE IF op.name = "" \/ AlreadySeen(st.seen, op.name) THEN st
  ELSE LET img == Resolved(op)
       IN IF img.res = "throws" THEN OnImageError(st)
          ELSE IF ~HasPixels(img) THEN st
          ELSE IF TooSmall(img.width, img.height) THEN st
          ELSE IF op.decode = "throws" THEN OnImageError(st)
          ELSE IF op.decode = "url"
               THEN [st EXCEPT !.seen = Append(@, op.name),
                               !.images =
                       Append(@, ExtractedImage(op.name, img.width, img.height))]
               ELSE st
ScanStep(st, op) ==
  IF st.left \/ ~IsPaintImage(op.fn) THEN st
  ELSE IF op.name = "" \/ AlreadySeen(st.seen, op.name) THEN st
  ELSE LET st1 == [st EXCEPT !.seen = Append(@, op.name)]
           img == Resolved(op)
       IN IF img.res = "throws" THEN OnImageError(st1)
          ELSE IF ~HasPixels(img) THEN st1
          ELSE IF TooSmall(img.width, img.height) THEN st1
          ELSE IF op.decode = "throws" THEN OnImageError(st1)
          ELSE IF op.decode = "url"
               THEN [st1 EXCEPT !.images =
                       Append(@, ExtractedImage(op.name, img.width, img.height))]
               ELSE st1

\* the whole loop over an operator list
RECURSIVE ScanAll(_, _)
ScanAll(st, ops) ==
  IF ops = <<>> THEN st ELSE ScanAll(ScanStep(st, Head(ops)), Tail(ops))

\* the outer catch block: getOperatorList rejected, images stays empty and
\* extractImagesFromPage returns it
OperatorListErrorFatal == "failed"
OperatorListError == "push"

(***************************************************************************)
(* What the properties say about one operator, from its inputs alone.      *)
(***************************************************************************)
\* the operator names an image whose pixels resolve, that is large enough
\* and that the canvas encodes
Qualifies(op) ==
  /\ op.fn \in PaintOps /\ op.name # ""
  /\ op.local.res # "throws"
  /\ LET img == IF op.local.res = "obj" THEN op.local ELSE op.common
     IN /\ img.res = "obj" /\ img.hasData
        /\ img.width >= MinImageSize /\ img.height >= MinImageSize
  /\ op.decode = "url"

\* the operator names an image that cannot be resolved to pixel data, whose
\* lookup or decoding throws, or for which the decoder returns nothing
FailsToDecode(op) ==
  /\ op.fn \in PaintOps /\ op.name # ""
  /\ \/ op.local.res = "throws"
     \/ op.local.res = "null" /\ op.common.res \in {"throws", "null"}
     \/ op.local.res = "obj" /\ ~op.local.hasData
     \/ op.local.res = "null" /\ op.common.res = "obj" /\ ~op.common.hasData
     \/ /\ LET img == IF op.local.res = "obj" THEN op.local ELSE op.common
           IN /\ img.res = "obj" /\ img.hasData
              /\ img.width >= MinImageSize /\ img.height >= MinImageSize
        /\ op.decode \in {"noctx", "throws"}

\* the resource an extracted image was decoded from
OriginOf(img) == img.dataUrl[2]

(***************************************************************************)
(* extractImagesFromPage, one operator per step.                           *)
(***************************************************************************)
ScanIdle ==
  /\ spc = "idle" /\ opLen = 0 /\ opIdx = 0 /\ seenImages = <<>>
  /\ images = <<>> /\ lastOp = NoOp /\ failedNames = {} /\ lookups = <<>>

RenderIdle ==
  /\ rpc = "idle" /\ profile = "none" /\ y = 0 /\ pdfPages = 0 /\ lineNo = 0
  /\ inCodeBlock = FALSE /\ codeBlockContent = <<>> /\ placed = <<>>
  /\ totalPages = 0 /\ stampIdx = 0 /\ footers = <<>> /\ headers = <<>>
  /\ saved = FALSE /\ comparisonsList = <<>> /\ recNo = 0

TwiceIdle ==
  /\ markdown = <<>> /\ run = 0 /\ log = <<>>
  /\ first = [log |-> <<>>, pages |-> 0, footers |-> <<>>, headers |-> <<>>]

\* fileName is not given
NoFileName == [given |-> FALSE]

FileNameIdle == articleTitle = <<>> /\ fileName = NoFileName /\ savedAs = <<>>

MaintenanceIdle ==
  /\ mpc = "idle" /\ nodeEnv = "" /\ maintenanceMode = FALSE
  /\ bypassValue = "" /\ bypassed = FALSE /\ checked = FALSE /\ view = ""

ClassifyIdle == cpc = "idle" /\ mdLine = <<>> /\ lineKind = ""

\* sessionStorage.getItem returns null when the key is not stored
StorageNull == "<null>"

\* URLSearchParams.get of a missing parameter
ParamNull == "<null>"

\* rui.state.v1 is not set
NoRuiState == [kind |-> "null"]

CallbackIdle ==
  /\ cbpc = "idle" /\ cbCode = ParamNull /\ cbState = ParamNull
  /\ expectedState = StorageNull /\ ruiState = NoRuiState
  /\ exchangeSent = FALSE /\ cbStatus = "" /\ cbError = ""

KeypadIdle ==
  /\ kpc = "idle" /\ secretCode = <<>> /\ keyCode = <<>> /\ attempts = 0
  /\ keyError = FALSE /\ locked = FALSE /\ lastKey = ""

NoWrite == [done |-> FALSE, key |-> "", raw |-> "", ok |-> FALSE]
NoUpdate == [dirty |-> FALSE, hydrated |-> FALSE, value |-> "", origin |-> ""]

PersistIdle ==
  /\ hpc = "idle" /\ store = <<>> /\ blocked = FALSE /\ hydrated = FALSE
  /\ value = "" /\ queued = NoUpdate /\ origin = "" /\ loaded = ""
  /\ reads = 0 /\ sets = 0 /\ lastWrite = NoWrite

RunsIdle == runs = <<>> /\ busy = "" /\ logMessages = <<>> /\ started = 0

AppIdle == CallbackIdle /\ KeypadIdle /\ PersistIdle /\ RunsIdle

OthersIdle == MaintenanceIdle /\ ClassifyIdle /\ AppIdle

ExtractIdle ==
  /\ epc = "idle" /\ opened = FALSE /\ numPages = 0 /\ pageNum = 0
  /\ pageText = <<>> /\ pages = <<>> /\ fullText = <<>>
  /\ result = [pages |-> <<>>, fullText |-> <<>>]
  /\ failedAt = "" /\ pageItems = <<>> /\ opListFailed = <<>>

\* line 73: const images = []
InitScan ==
  /\ spc = "getOperatorList" /\ opLen = 0 /\ opIdx = 0 /\ seenImages = <<>>
  /\ images = <<>> /\ lastOp = NoOp /\ failedNames = {} /\ lookups = <<>>
  /\ ExtractIdle /\ RenderIdle /\ TwiceIdle /\ FileNameIdle /\ OthersIdle

\* lines 76-77: await page.getOperatorList() resolves or rejects
ScanGetOperatorList ==
  /\ spc = "getOperatorList"
  /\ \/ \E n \in 0..MaxOps : opLen' = n /\ spc' = "scan"
     \/ opLen' = 0 /\ spc' = IF OperatorListError = "push" THEN "returned" ELSE "threw"
  /\ UNCHANGED <<opIdx, seenImages, images, lastOp, failedNames, lookups,
                 evars, rvars, tvars, fvars, ovars>>

\* lines 79-127: one iteration of the for loop
ScanOp ==
  /\ spc = "scan" /\ opIdx < opLen
  /\ \E op \in OpInputs :
       LET st == ScanStep(ScanState(images, seenImages, FALSE), op)
       IN /\ lastOp' = op
          /\ images' = st.images
          /\ seenImages' = st.seen
          /\ spc' = IF st.left THEN "returned" ELSE "scan"
          /\ failedNames' =
               IF FailsToDecode(op) /\ ~InSeq(op.name, seenImages)
               THEN failedNames \cup {op.name} ELSE failedNames
          /\ lookups' = IF LooksUp(ScanState(images, seenImages, FALSE), op)
                        THEN Append(lookups, op.name) ELSE lookups
  /\ opIdx' = opIdx + 1
  /\ UNCHANGED <<opLen, evars, rvars, tvars,
                 fvars, ovars>>

\* line 132: return images
ScanReturn ==
  /\ spc = "scan" /\ opIdx = opLen
  /\ spc' = "returned"
  /\ UNCHANGED <<opLen, opIdx, seenImages, images, lastOp, failedNames,
                 lookups, evars, rvars, tvars, fvars, ovars>>

NextScan == ScanGetOperatorList \/ ScanOp \/ ScanReturn

SpecScan == InitScan /\ [][NextScan]_vars

(***************************************************************************)
(* extractPdfWithPages.                                                    *)
(***************************************************************************)
\* operators that resolve in page.objs / only in page.commonObjs
PaintLocal(fn, name, obj, decode) == Op(fn, name, obj, LookupNull, decode)
PaintCommon(fn, name, obj, decode) == Op(fn, name, LookupNull, obj, decode)

\* the operator lists a page is given in the model
OperatorLists ==
  { <<>>,
    <<PaintLocal(OPS_PAINT_IMAGE_XOBJECT, "Im1", LookupObj(TRUE, 60, 80), "url")>>,
    <<NoOp, PaintLocal(OPS_PAINT_JPEG_XOBJECT, "Im1", LookupObj(TRUE, 40, 40), "url")>>,
    <<Op(OPS_PAINT_IMAGE_XOBJECT, "Im1", LookupThrows, LookupNull, "url"),
      PaintCommon(OPS_PAINT_IMAGE_XOBJECT_REPEAT, "Im2", LookupObj(TRUE, 50, 50), "url")>>,
    <<PaintLocal(OPS_PAINT_IMAGE_XOBJECT, "Im1", LookupObj(TRUE, 60, 80), "url"),
      PaintLocal(OPS_PAINT_IMAGE_XOBJECT, "Im1", LookupObj(TRUE, 60, 80), "url"),
      PaintLocal(OPS_PAINT_IMAGE_XOBJECT, "Im2", LookupObj(TRUE, 60, 80), "noctx")>> }

\* lines 175-179: the entry pushed to pages
NewPageZeroBased(pn, text, imgs) ==
  [pageNumber |-> pn - 1, text |-> text, images |-> imgs]
NewPage(pn, text, imgs) == [pageNumber |-> pn, text |-> text, images |-> imgs]

\* line 181: what follows each page's text in fullText
PageSeparatorOneNewline == <<"\n">>
PageSeparator == <<"\n", "\n">>

InitExtract ==
  /\ epc = "start" /\ opened = FALSE /\ numPages = 0 /\ pageNum = 0
  /\ pageText = <<>> /\ pages = <<>> /\ fullText = <<>>
  /\ result = [pages |-> <<>>, fullText |-> <<>>]
  /\ failedAt = "" /\ pageItems = <<>> /\ opListFailed = <<>>
  /\ ScanIdle /\ RenderIdle /\ TwiceIdle /\ FileNameIdle /\ OthersIdle

\* lines 143-149: the window check, initPdfjs and file.arrayBuffer()
ExtractStart ==
  /\ epc = "start"
  /\ \E ok \in BOOLEAN :
       IF ok THEN epc' = "open" /\ UNCHANGED failedAt
       ELSE epc' = "failed" /\ failedAt' = "start"
  /\ UNCHANGED <<opened, numPages, pageNum, pageText, pages, fullText, result,
                 pageItems, opListFailed, svars, rvars, tvars,
                 fvars, ovars>>

\* lines 150-156: await task.promise; the loop starts at pageNum = 1
OpenDocument ==
  /\ epc = "open"
  /\ \/ \E n \in 1..MaxPages :
          /\ opened' = TRUE /\ numPages' = n /\ pageNum' = 1
          /\ epc' = "getPage" /\ UNCHANGED failedAt
     \/ /\ epc' = "failed" /\ failedAt' = "open"
        /\ UNCHANGED <<opened, numPages, pageNum>>
  /\ UNCHANGED <<pageText, pages, fullText, result, pageItems, opListFailed, svars, rvars, tvars,
                 fvars, ovars>>

\* lines 156-157: pageNum <= pdf.numPages, await pdf.getPage(pageNum)
GetPage ==
  /\ epc = "getPage" /\ pageNum <= numPages
  /\ \E ok \in BOOLEAN :
       IF ok THEN epc' = "getTextContent" /\ UNCHANGED failedAt
       ELSE epc' = "failed" /\ failedAt' = "getPage"
  /\ UNCHANGED <<opened, numPages, pageNum, pageText, pages, fullText, result,
                 pageItems, opListFailed, svars, rvars, tvars,
                 fvars, ovars>>

\* lines 160-170: await page.getTextContent(), pageText
GetTextContent ==
  /\ epc = "getTextContent"
  /\ \/ \E items \in TextContents :
          /\ pageText' = PageTextOf(items)
          /\ pageItems' = Append(pageItems, items)
          /\ epc' = "extractImages" /\ UNCHANGED failedAt
     \/ /\ epc' = "failed" /\ failedAt' = "getTextContent"
        /\ UNCHANGED <<pageText, pageItems>>
  /\ UNCHANGED <<opened, numPages, pageNum, pages, fullText, result,
                 opListFailed, svars, rvars, tvars,
                 fvars, ovars>>

PushPageEarlyNext(imgs, opFailed) ==
  /\ pages' = pages
  /\ fullText' = fullText
  /\ pageNum' = pageNum + 1
  /\ opListFailed' = opListFailed
  /\ epc' = "getPage"
  /\ UNCHANGED failedAt
\* lines 175-181: push the page, extend fullText, pageNum++
PushPage(imgs, opFailed) ==
  /\ pages' = Append(pages, NewPage(pageNum, pageText, imgs))
  /\ fullText' = fullText \o pageText \o PageSeparator
  /\ pageNum' = pageNum + 1
  /\ opListFailed' = Append(opListFailed, opFailed)
  /\ epc' = "getPage"
  /\ UNCHANGED failedAt

\* line 173 with lines 72-133, then lines 175-181: extractImagesFromPage
\* awaits getOperatorList only; the scan and the push run without a break
ExtractImages ==
  /\ epc = "extractImages"
  /\ \/ \E ops \in OperatorLists :
          PushPage(ScanAll(ScanState(<<>>, <<>>, FALSE), ops).images, FALSE)
     \/ IF OperatorListError = "push"
        THEN PushPage(<<>>, TRUE)
        ELSE /\ epc' = "failed" /\ failedAt' = "getOperatorList"
             /\ UNCHANGED <<pages, fullText, pageNum, opListFailed>>
  /\ UNCHANGED <<opened, numPages, pageText, result, pageItems, svars, rvars, tvars,
                 fvars, ovars>>

\* lines 184-187: the loop is over, return pages and the trimmed fullText
ExtractReturn ==
  /\ epc = "getPage" /\ pageNum > numPages
  /\ result' = [pages |-> pages, fullText |-> Trim(fullText)]
  /\ epc' = "done"
  /\ UNCHANGED <<opened, numPages, pageNum, pageText, pages, fullText,
                 failedAt, pageItems, opListFailed, svars, rvars, tvars,
                 fvars, ovars>>

NextExtract ==
  \/ ExtractStart
  \/ OpenDocument
  \/ GetPage
  \/ GetTextContent
  \/ ExtractImages
  \/ ExtractReturn

SpecExtract == InitExtract /\ [][NextExtract]_vars

(***************************************************************************)
(* Properties of the extractor.                                            *)
(***************************************************************************)
\* the image object the scan ends up with for an operator whose lookups
\* do not throw
ResolvedImage(op) == IF op.local.res = "obj" THEN op.local ELSE op.common

\* the last loop iteration handled the first occurrence of its name
FirstOccurrence ==
  /\ spc = "scan" /\ opIdx' = opIdx + 1
  /\ lastOp'.fn \in PaintOps /\ lastOp'.name # ""
  /\ ~InSeq(lastOp'.name, seenImages)

\* C2 (as claimed): extractPdfWithPages fails only when the document cannot
\* be opened; once it is open no failure on a page fails the extraction.
C2_FailsOnlyAtOpen == epc = "failed" => ~opened

\* C3: whenever extractPdfWithPages returns for a document of N pages it
\* returns N entries and the k-th entry has pageNumber k.
C3_PageNumbers ==
  /\ \A k \in 1..Len(pages) : pages[k].pageNumber = k
  /\ (epc = "done") =>
       (/\ Len(result.pages) = numPages
        /\ \A k \in 1..numPages : result.pages[k].pageNumber = k)

C3_Witness == epc = "done" /\ Len(result.pages) >= 2

\* C4: the returned fullText is the pages' texts joined by two newlines and
\* trimmed, also when some page has no text.
C4_FullText ==
  epc = "done" =>
    result.fullText =
      Trim(Join([k \in 1..Len(result.pages) |-> result.pages[k].text],
                <<"\n", "\n">>))

C4_Witness ==
  /\ epc = "done" /\ Len(result.pages) >= 2
  /\ result.pages[1].text = <<>>
  /\ result.pages[2].text # <<>>
  /\ result.fullText # <<>>

\* C5: every extracted image is at least 50 x 50 and carries the width and
\* height of the image object it was resolved from; an image object smaller
\* than 50 in either dimension is never added.
C5_ImageSizes ==
  /\ [](\A i \in 1..Len(images) :
          images[i].width >= 50 /\ images[i].height >= 50)
  /\ [][((images' # images) =>
           (/\ lastOp'.local.res # "throws"
            /\ images' = Append(images, [dataUrl |-> DataUrlOf(lastOp'.name),
                                         width |-> ResolvedImage(lastOp').width,
                                         height |-> ResolvedImage(lastOp').height])))
        /\ ((/\ opIdx' = opIdx + 1
             /\ lastOp'.local.res # "throws"
             /\ ResolvedImage(lastOp').res = "obj"
             /\ (ResolvedImage(lastOp').width < 50 \/ ResolvedImage(lastOp').height < 50))
            => images' = images)]_vars

C5_Witness ==
  /\ Len(images) = 1
  /\ images[1].width = 60 /\ images[1].height = 80
  /\ lastOp.name # "" /\ lastOp.name # OriginOf(images[1])
  /\ lastOp.local = LookupObj(TRUE, 40, 40)

\* C6: on one page a resource name is handled at its first occurrence only:
\* a paint operator whose name was seen changes nothing, no two extracted
\* images come from the same name, and the images are in the order of the
\* first occurrences of their names.
C6_OncePerName ==
  /\ [](\A i, j \in 1..Len(images) :
          (i # j => OriginOf(images[i]) # OriginOf(images[j])))
  /\ [](\A i, j \in 1..Len(seenImages) :
          (i # j => seenImages[i] # seenImages[j]))
  /\ [](\A i, j \in 1..Len(images) :
          (i < j =>
             \E a, b \in 1..Len(seenImages) :
               /\ a < b
               /\ seenImages[a] = OriginOf(images[i])
               /\ seenImages[b] = OriginOf(images[j])))
  /\ [][(opIdx' = opIdx + 1 /\ InSeq(lastOp'.name, seenImages))
          => (images' = images /\ seenImages' = seenImages)]_vars

C6_Witness ==
  /\ Len(images) = 2
  /\ Qualifies(lastOp)
  /\ lastOp.name = OriginOf(images[1])
  /\ ResolvedImage(lastOp).width # images[1].width

\* C7: when getOperatorList rejects for a page, the page is pushed with no
\* images and with the text of its text items, and the loop goes on to the
\* next page.
C7_OperatorListError ==
  /\ failedAt # "getOperatorList"
  /\ Len(opListFailed) = Len(pages)
  /\ \A k \in 1..Len(pages) :
       /\ pages[k].text = PageTextOf(pageItems[k])
       /\ (opListFailed[k] => pages[k].images = <<>>)
  /\ ((epc = "getPage" /\ Len(pages) >= 1 /\ opListFailed[Len(pages)])
       => pageNum = Len(pages) + 1)

C7_Witness ==
  /\ epc = "done" /\ Len(result.pages) >= 2
  /\ opListFailed[1]
  /\ result.pages[1].text # <<>>
  /\ result.pages[2].images # <<>>

\* C8: a first occurrence that cannot be resolved to pixel data, whose
\* lookup or decoding throws, or whose decoding returns nothing, adds no
\* image and does not end the scan; every operator of the list is scanned
\* and a later image that qualifies is added.
C8_ImageFailureIsolated ==
  /\ [](spc = "returned" => opIdx = opLen)
  /\ [][FirstOccurrence =>
          /\ (FailsToDecode(lastOp') => (images' = images /\ spc' = "scan"))
          /\ (Qualifies(lastOp') =>
                LET img == ResolvedImage(lastOp')
                IN images' = Append(images, [dataUrl |-> DataUrlOf(lastOp'.name),
                                             width |-> img.width,
                                             height |-> img.height]))]_vars

C8_Witness ==
  /\ spc = "returned"
  /\ Len(seenImages) = 2 /\ Len(images) = 1
  /\ seenImages[1] \in failedNames
  /\ OriginOf(images[1]) = seenImages[2]

(***************************************************************************)
(* The PDF renderers.  jsPDF is created with unit "pt" and format "a4":    *)
(* pageSize is 595.28 x 841.89 pt.  All lengths are in hundredths of a     *)
(* point.  Every increment of y in the code is a multiple of 0.1 pt, and   *)
(* pageHeight - margin = 801.89 is not, so no comparison of checkPageBreak *)
(* is decided by floating-point rounding.                                  *)
(*                                                                         *)
(* pdf.splitTextToSize is jsPDF's: a text is given by the number of lines  *)
(* it wraps to (0: the text is empty, undefined or null).                  *)
(***************************************************************************)
PageWidth == 59528
PageHeight == 84189
Margin == 4000
HeaderHeight == 3000

\* the numbers of wrapped lines of the texts of the model
WrapCounts == {0, 2, MaxWrap}

\* something drawn: pdf.text / pdf.line / pdf.roundedRect / pdf.circle on
\* page `page`; y is the y passed to jsPDF, bot the lowest y of the shape,
\* ln the index of a wrapped line in its text (0: not a wrapped line)
Item(kind, tag, page, yy, bot, x, ln) ==
  [kind |-> kind, tag |-> tag, page |-> page, y |-> yy, bot |-> bot, x |-> x,
   ln |-> ln]

\* a wrapped line placed by addText: pdf.text(line, x, y); h is the height of
\* its row, the amount addText moves the cursor by after it
WrappedLine(tag, page, yy, x, ln, h) ==
  [kind |-> "text", tag |-> tag, page |-> page, y |-> yy, bot |-> yy, x |-> x,
   ln |-> ln, h |-> h]

\* the layout state threaded through one step: cursor, page count, drawings
Layout(yy, pgs, drawn) == [y |-> yy, pages |-> pgs, placed |-> drawn]

Advance(L, dy) == [L EXCEPT !.y = @ + dy]
Draw(L, item) == [L EXCEPT !.placed = Append(@, item)]

(***************************************************************************)
(* exportFinalReportToPdf.                                                 *)
(***************************************************************************)
\* line 25 and line 39: where the cursor starts on a page
ReportTop == Margin + HeaderHeight

\* lines 36-41
CheckPageBreak(L, requiredHeight) ==
  IF L.y + requiredHeight > PageHeight - Margin
  THEN [L EXCEPT !.pages = @ + 1, !.y = ReportTop]
  ELSE L

\* fontSize * 1.5, fontSize in points
LineHeight(fontSize) == fontSize * 150

\* lines 70-72: the loop body for wrapped line k
AddLineCheckAfter(L, k, fontSize, indent, tag) ==
  CheckPageBreak(
    Advance(Draw(L, WrappedLine(tag, L.pages, L.y, Margin + indent, k,
                                LineHeight(fontSize))),
            LineHeight(fontSize)),
    LineHeight(fontSize))
AddLine(L, k, fontSize, indent, tag) ==
  LET L1 == CheckPageBreak(L, LineHeight(fontSize))
  IN Advance(Draw(L1, WrappedLine(tag, L1.pages, L1.y, Margin + indent, k,
                                  LineHeight(fontSize))),
             LineHeight(fontSize))

\* lines 69-73: the loop over the wrapped lines a..b, in order (the range is
\* halved so that the evaluation does not nest once per line)
RECURSIVE AddLines(_, _, _, _, _, _)
AddLines(L, a, b, fontSize, indent, tag) ==
  IF a > b THEN L
  ELSE IF a = b THEN AddLine(L, a, fontSize, indent, tag)
  ELSE LET mid == (a + b) \div 2
           done == AddLines(L, a, mid, fontSize, indent, tag)
       IN CASE done.pages >= L.pages ->  \* lines a..mid are laid out first
               AddLines(done, mid + 1, b, fontSize, indent, tag)

\* lines 56-74: addText of a text that wraps to n lines
AddText(L, n, fontSize, indent, tag) == AddLines(L, 1, n, fontSize, indent, tag)

\* lines 95-101: the loop body for code line k, no page-break check; the
\* drawing carries the buffered line it prints
CodeLine(L, code, k) ==
  Advance(Draw(L, [kind |-> "code", tag |-> "code", page |-> L.pages, y |-> L.y,
                   bot |-> L.y, x |-> Margin + 800, ln |-> k, src |-> code[k]]),
          1200)

RECURSIVE CodeLinesBackwards(_, _, _, _)
CodeLinesBackwards(L, code, a, b) ==
  IF a > b THEN L
  ELSE CodeLinesBackwards(CodeLine(L, code, b), code, a, b - 1)
\* lines 94-102: the loop over the code lines a..b, in order
RECURSIVE CodeLines(_, _, _, _)
CodeLines(L, code, a, b) ==
  IF a > b THEN L
  ELSE IF a = b THEN CodeLine(L, code, a)
  ELSE LET mid == (a + b) \div 2
           done == CodeLines(L, code, a, mid)
       IN CASE done.pages >= L.pages ->  \* lines a..mid are laid out first
               CodeLines(done, code, mid + 1, b)

FlushCodeBlockEmptyToo(L, code) ==
  LET L1 == CheckPageBreak(L, Len(code) * 1200 + 2400)
      codeHeight == Len(code) * 1200 + 1600
      L2 == Draw(L1, Item("rect", "code", L1.pages, L1.y - 400,
                          L1.y - 400 + codeHeight, Margin, 0))
  IN Advance(CodeLines(Advance(L2, 800), code, 1, Len(code)), 1200)
\* lines 88-104: the closing fence draws the buffered lines
FlushCodeBlock(L, code) ==
  IF Len(code) > 0
  THEN LET L1 == CheckPageBreak(L, Len(code) * 1200 + 2400)
           codeHeight == Len(code) * 1200 + 1600
           L2 == Draw(L1, Item("rect", "code", L1.pages, L1.y - 400,
                               L1.y - 400 + codeHeight, Margin, 0))
       IN Advance(CodeLines(Advance(L2, 800), code, 1, Len(code)), 1200)
  ELSE L

\* lines 125-134
Heading1(L, n) ==
  LET L1 == AddText(Advance(CheckPageBreak(L, 4000), 1600), n, 20, 0, "h1")
      L2 == Advance(L1, 400)
      L3 == Draw(L2, Item("rule", "h1", L2.pages, L2.y, L2.y, Margin, 0))
  IN Advance(L3, 1600)

\* lines 136-142
Heading2(L, n) ==
  Advance(AddText(Advance(CheckPageBreak(L, 3000), 1200), n, 15, 0, "h2"), 400)

\* lines 144-150
Heading3(L, n) ==
  Advance(AddText(Advance(CheckPageBreak(L, 2400), 800), n, 12, 0, "h3"), 200)

\* lines 152-157
Heading4(L, n) ==
  AddText(Advance(CheckPageBreak(L, 2000), 600), n, 11, 0, "h4")

\* lines 160-167
HorizontalRule(L) ==
  LET L1 == Advance(CheckPageBreak(L, 2000), 800)
  IN Advance(Draw(L1, Item("rule", "rule", L1.pages, L1.y, L1.y, Margin, 0)),
             1200)

\* lines 186-188: the loop body for quote line k
QuoteLine(L, k) ==
  LET L1 == CheckPageBreak(L, 1400)
  IN Advance(Draw(L1, Item("text", "quote", L1.pages, L1.y, L1.y, Margin + 1200, k)),
             1400)

\* lines 185-189: the loop over the quote lines a..b, in order
RECURSIVE QuoteLines(_, _, _)
QuoteLines(L, a, b) ==
  IF a > b THEN L
  ELSE IF a = b THEN QuoteLine(L, a)
  ELSE LET mid == (a + b) \div 2
           done == QuoteLines(L, a, mid)
       IN CASE done.pages >= L.pages ->  \* lines a..mid are laid out first
               QuoteLines(done, mid + 1, b)

\* lines 170-192: n is quoteLines.length
Blockquote(L, n) ==
  LET L1 == CheckPageBreak(L, 2400)
      quoteHeight == n * 1400
      L2 == Draw(L1, Item("border", "quote", L1.pages, L1.y - 200,
                          L1.y + quoteHeight, Margin, 0))
  IN Advance(QuoteLines(L2, 1, n), 600)

UnorderedItemNoCheck(L, n, indentLevel) ==
  LET indent == indentLevel * 1600
      L2 == Draw(L, Item("bullet", "ul", L.pages, L.y - 300, L.y - 150,
                         Margin + indent + 400, 0))
  IN AddText(L2, n, 10, indent + 1400, "ul")
\* lines 195-208: indentLevel is Math.floor(ulMatch[1].length / 2)
UnorderedItem(L, n, indentLevel) ==
  LET indent == indentLevel * 1600
      L1 == CheckPageBreak(L, 1600)
      L2 == Draw(L1, Item("bullet", "ul", L1.pages, L1.y - 300, L1.y - 150,
                          Margin + indent + 400, 0))
  IN AddText(L2, n, 10, indent + 1400, "ul")

\* lines 211-226
OrderedItem(L, n, indentLevel) ==
  LET indent == indentLevel * 1600
      L1 == CheckPageBreak(L, 1600)
      L2 == Draw(L1, Item("marker", "ol", L1.pages, L1.y, L1.y,
                          Margin + indent, 0))
  IN AddText(L2, n, 10, indent + 1800, "ol")

\* a markdown line: the branch of the loop body it takes outside a code
\* block, the number of lines its text wraps to, its list indent level
Line(kind, n, lvl) == [kind |-> kind, n |-> n, lvl |-> lvl]

ReportLines ==
  {Line("fence", 0, 0), Line("blank", 0, 0), Line("rule", 0, 0)}
  \cup {Line(k, n, 0) : k \in {"h1", "h2", "h3", "h4"}, n \in {0, 2}}
  \cup {Line(k, n, 0) : k \in {"quote", "para"}, n \in WrapCounts \ {0}}
  \cup {Line("ul", n, lvl) : n \in WrapCounts, lvl \in {0, 1}}
  \cup {Line("ol", 2, lvl) : lvl \in {0, 1}}

\* lines 14-25 and 77-79: the locals of one invocation
StaleParserState ==
  [inCodeBlock |-> inCodeBlock, codeBlockContent |-> codeBlockContent]
FreshParserState == [inCodeBlock |-> FALSE, codeBlockContent |-> <<>>]

\* lines 81-230: the loop body for one line, outside a code block
PlaceLine(L, ln) ==
  CASE ln.kind = "blank" -> Advance(L, 600)
    [] ln.kind = "h1" -> Heading1(L, ln.n)
    [] ln.kind = "h2" -> Heading2(L, ln.n)
    [] ln.kind = "h3" -> Heading3(L, ln.n)
    [] ln.kind = "h4" -> Heading4(L, ln.n)
    [] ln.kind = "rule" -> HorizontalRule(L)
    [] ln.kind = "quote" -> Blockquote(L, ln.n)
    [] ln.kind = "ul" -> UnorderedItem(L, ln.n, ln.lvl)
    [] ln.kind = "ol" -> OrderedItem(L, ln.n, ln.lvl)
    [] OTHER -> AddText(L, ln.n, 10, 0, "para")

\* the lines the loop may read next: with run = 0 the markdown argument is
\* read as it comes (any line may follow, up to MaxLines lines), otherwise
\* the lines are those of the variable markdown
NextLines ==
  IF run = 0
  THEN IF lineNo < MaxLines THEN ReportLines ELSE {}
  ELSE IF lineNo < Len(markdown) THEN {markdown[lineNo + 1]} ELSE {}

\* markdown.split("\n") has at least one element
EndOfLines == IF run = 0 THEN lineNo >= 1 ELSE lineNo = Len(markdown)

\* lines 8-25, 77-79: the window check, new jsPDF (one page), the locals
ReportInvoke ==
  /\ rpc = "start" /\ profile = "report"
  /\ \E window \in BOOLEAN :
       IF window
       THEN /\ rpc' = "lines"
            /\ pdfPages' = 1
            /\ y' = ReportTop
            /\ lineNo' = 0
            /\ inCodeBlock' = FreshParserState.inCodeBlock
            /\ codeBlockContent' = FreshParserState.codeBlockContent
            /\ placed' = <<>> /\ totalPages' = 0 /\ stampIdx' = 0
            /\ footers' = <<>> /\ headers' = <<>> /\ saved' = FALSE
            /\ log' = <<>>
       ELSE /\ rpc' = "threw"
            /\ UNCHANGED <<pdfPages, y, lineNo, inCodeBlock, codeBlockContent,
                           placed, totalPages, stampIdx, footers, headers,
                           saved, log>>
  /\ UNCHANGED <<profile, comparisonsList, recNo, markdown, run, first, evars, svars,
                 fvars, ovars>>

\* lines 81-230: one iteration of the loop over the lines
RenderLine ==
  /\ rpc = "lines" /\ profile = "report"
  /\ \E ln \in NextLines :
       LET L == Layout(y, pdfPages, <<>>)
           L1 == IF ln.kind = "fence"
                 THEN IF inCodeBlock THEN FlushCodeBlock(L, codeBlockContent)
                      ELSE L
                 ELSE IF inCodeBlock THEN L ELSE PlaceLine(L, ln)
       IN /\ y' = L1.y /\ pdfPages' = L1.pages /\ placed' = L1.placed
          /\ inCodeBlock' = IF ln.kind = "fence" THEN ~inCodeBlock ELSE inCodeBlock
          /\ codeBlockContent' =
               IF ln.kind = "fence" THEN <<>>
               ELSE IF inCodeBlock THEN Append(codeBlockContent, ln)
               ELSE codeBlockContent
          /\ log' = IF run = 0 THEN log ELSE log \o L1.placed
  /\ lineNo' = lineNo + 1
  /\ UNCHANGED <<rpc, profile, comparisonsList, recNo, totalPages, stampIdx,
                 footers, headers, saved,
                 markdown, run, first, evars, svars,
                 fvars, ovars>>

\* lines 233-236: the loop is over, totalPages = pdf.getNumberOfPages()
ReportFinishLayout ==
  /\ rpc = "lines" /\ profile = "report" /\ EndOfLines
  /\ totalPages' = pdfPages /\ stampIdx' = 1 /\ rpc' = "stamp"
  /\ placed' = <<>>
  /\ UNCHANGED <<profile, comparisonsList, recNo, y, pdfPages, lineNo,
                 inCodeBlock, codeBlockContent,
                 footers, headers, saved, tvars, evars, svars,
                 fvars, ovars>>

\* the test of the footer loops: i <= totalPages
StampMoreStrict(i, total) == i < total
StampMore(i, total) == i <= total

\* part_003 lines 238-257: one iteration, header and footer on page i
ReportStampPage ==
  /\ rpc = "stamp" /\ profile = "report" /\ StampMore(stampIdx, totalPages)
  /\ headers' = Append(headers, [page |-> stampIdx])
  /\ footers' = Append(footers, [page |-> stampIdx, num |-> stampIdx,
                                 of |-> totalPages])
  /\ stampIdx' = stampIdx + 1
  /\ UNCHANGED <<rpc, profile, comparisonsList, recNo, y, pdfPages, lineNo,
                 inCodeBlock,
                 codeBlockContent, placed, totalPages, saved, tvars, evars, svars,
                 fvars, ovars>>

(***************************************************************************)
(* The file name of the saved document.                                    *)
(***************************************************************************)
\* [a-zA-Z]
Letters ==
  {"a", "b", "c", "d", "e", "f", "g", "h", "i", "j", "k", "l", "m", "n", "o",
   "p", "q", "r", "s", "t", "u", "v", "w", "x", "y", "z", "A", "B", "C", "D",
   "E", "F", "G", "H", "I", "J", "K", "L", "M", "N", "O", "P", "Q", "R", "S",
   "T", "U", "V", "W", "X", "Y", "Z"}
\* [0-9]
Digits == {"0", "1", "2", "3", "4", "5", "6", "7", "8", "9"}

\* part_003 line 262: .slice(0, 50)
TitleLimit == 50
Slice(s, n) == SubSeq(s, 1, IF Len(s) < n THEN Len(s) ELSE n)

\* part_003 line 263: the characters /[^a-zA-Z0-9\s-]/g leaves
IsSlugChar(c) == c \in Letters \/ c \in Digits \/ IsSpace(c) \/ c = "-"
RemoveOthers(s) == SelectSeq(s, IsSlugChar)

\* part_003 line 265: .replace(/\s+/g, "-")
RECURSIVE HyphenateEach(_)
HyphenateEach(s) ==
  IF s = <<>> THEN <<>>
  ELSE <<IF IsSpace(Head(s)) THEN "-" ELSE Head(s)>> \o HyphenateEach(Tail(s))
RECURSIVE HyphenateRuns(_)
HyphenateRuns(s) ==
  IF s = <<>> THEN <<>>
  ELSE IF IsSpace(Head(s)) THEN <<"-">> \o HyphenateRuns(TrimStart(s))
  ELSE <<Head(s)>> \o HyphenateRuns(Tail(s))

\* part_003 lines 265-266
ReportSuffix ==
  <<"-", "c", "r", "i", "t", "i", "c", "a", "l", "-", "a", "n", "a", "l",
    "y", "s", "i", "s", ".", "p", "d", "f">>
DefaultReportName ==
  <<"c", "r", "i", "t", "i", "c", "a", "l", "-", "a", "n", "a", "l", "y",
    "s", "i", "s", ".", "p", "d", "f">>
\* part_001 line 620
DefaultPairwiseName ==
  <<"p", "a", "i", "r", "w", "i", "s", "e", "-", "c", "o", "m", "p", "a",
    "r", "a", "t", "i", "v", "e", "-", "a", "n", "a", "l", "y", "s", "i",
    "s", ".", "p", "d", "f">>

\* part_003 lines 260-266: "" and undefined are falsy
SafeFileName(title) ==
  IF title # <<>>
  THEN HyphenateRuns(Trim(RemoveOthers(Slice(title, TitleLimit))))
         \o ReportSuffix
  ELSE DefaultReportName

\* part_003 line 268, part_001 line 620: fileName ?? default
SaveName(name, default) == IF name.given THEN name.name ELSE default

\* part_003 lines 259-268: safeFileName, pdf.save
ReportSave ==
  /\ rpc = "stamp" /\ profile = "report" /\ ~StampMore(stampIdx, totalPages)
  /\ saved' = TRUE /\ rpc' = "saved"
  /\ savedAs' = SaveName(fileName, SafeFileName(articleTitle))
  /\ UNCHANGED <<profile, comparisonsList, recNo, y, pdfPages, lineNo,
                 inCodeBlock, codeBlockContent, placed, totalPages, stampIdx,
                 footers, headers, tvars, evars, svars, articleTitle, fileName,
                 ovars>>

(***************************************************************************)
(* exportPairwiseComparisonsToPdf (part_001).                              *)
(***************************************************************************)
\* part_001 lines 105-110
PwCheckPageBreak(L, requiredHeight) ==
  IF L.y + requiredHeight > PageHeight - Margin
  THEN [L EXCEPT !.pages = @ + 1, !.y = Margin]
  ELSE L

\* part_001 lines 126, 128: fontSize * 1.4, fontSize in points
PwLineHeight(fontSize) == fontSize * 140

\* part_001 lines 126-128: the loop body for wrapped line k
PwAddLine(L, k, fontSize, indent, tag) ==
  LET L1 == PwCheckPageBreak(L, PwLineHeight(fontSize))
  IN Advance(Draw(L1, WrappedLine(tag, L1.pages, L1.y, Margin + indent, k,
                                  PwLineHeight(fontSize))),
             PwLineHeight(fontSize))

\* part_001 lines 125-129: the loop over the wrapped lines a..b, in order
RECURSIVE PwAddLines(_, _, _, _, _, _)
PwAddLines(L, a, b, fontSize, indent, tag) ==
  IF a > b THEN L
  ELSE IF a = b THEN PwAddLine(L, a, fontSize, indent, tag)
  ELSE LET mid == (a + b) \div 2
           done == PwAddLines(L, a, mid, fontSize, indent, tag)
       IN CASE done.pages >= L.pages ->  \* lines a..mid are laid out first
               PwAddLines(done, mid + 1, b, fontSize, indent, tag)

\* part_001 lines 113-130: addText of a text that wraps to n lines
PwAddText(L, n, fontSize, indent, tag) ==
  PwAddLines(L, 1, n, fontSize, indent, tag)

\* pdf.line(margin, y, pageWidth - margin, y)
PwRule(L, tag) == Draw(L, Item("rule", tag, L.pages, L.y, L.y, Margin, 0))

\* the arguments of the model: comparisons as the list of their isRelated
ComparisonLists == {<<>>, <<TRUE>>, <<FALSE, TRUE>>}

\* part_001 lines 150-151
RelatedCount(list) == Cardinality({i \in DOMAIN list : list[i]})
UnrelatedCount(list) == Cardinality({i \in DOMAIN list : ~list[i]})

\* part_001 lines 71-87, 149: the window check, new jsPDF (one page), y
PairwiseInvoke ==
  /\ rpc = "start" /\ profile = "pairwise"
  /\ \E window \in BOOLEAN, comparisons \in ComparisonLists :
       IF window
       THEN /\ rpc' = "title"
            /\ pdfPages' = 1
            /\ y' = Margin
            /\ comparisonsList' = comparisons
            /\ recNo' = 0
            /\ placed' = <<>> /\ totalPages' = 0 /\ stampIdx' = 0
            /\ footers' = <<>> /\ headers' = <<>> /\ saved' = FALSE
       ELSE /\ rpc' = "threw"
            /\ UNCHANGED <<pdfPages, y, comparisonsList, recNo, placed,
                           totalPages, stampIdx, footers, headers, saved>>
  /\ UNCHANGED <<profile, lineNo, inCodeBlock, codeBlockContent, tvars, evars, svars,
                 fvars, ovars>>

\* part_001 lines 153-229: mainTitle is the number of lines the "Main
\* Article" text wraps to, 0 when mainTitle is not given
TitlePage(L, mainTitle, list) ==
  LET L1 == Advance(PwAddText(L, 1, 24, 0, "title"), 800)
      L2 == IF mainTitle > 0 THEN PwAddText(L1, mainTitle, 12, 0, "title.main")
            ELSE L1
      L3 == Advance(PwAddText(Advance(L2, 400), 1, 11, 0, "title.count"), 1600)
      L4 == Advance(PwRule(L3, "title.rule"), 1600)
      L5 == Advance(PwAddText(L4, 1, 14, 0, "stats.heading"), 800)
      L6 == PwAddText(PwAddText(L5, 1, 10, 800, "stats.total"),
                      1, 10, 800, "stats.related")
      L7 == IF UnrelatedCount(list) > 0
            THEN PwAddText(L6, 1, 10, 800, "stats.unrelated")
            ELSE L6
      L8 == PwAddText(Advance(L7, 400), 1, 10, 800, "stats.main")
      L9 == PwAddText(PwAddText(L8, 1, 10, 800, "stats.relatedStronger"),
                      1, 10, 800, "stats.comparable")
  IN Advance(PwRule(Advance(L9, 2000), "stats.rule"), 2000)

PairwiseTitlePage ==
  /\ rpc = "title" /\ profile = "pairwise"
  /\ \E mainTitle \in {0, 1} :
       LET L == TitlePage(Layout(y, pdfPages, <<>>), mainTitle, comparisonsList)
       IN y' = L.y /\ pdfPages' = L.pages /\ placed' = L.placed
  /\ rpc' = "record"
  /\ UNCHANGED <<profile, comparisonsList, recNo, lineNo, inCodeBlock,
                 codeBlockContent, totalPages, stampIdx, footers, headers,
                 saved, tvars, evars, svars,
                 fvars, ovars>>

\* part_001 lines 236-239
NewRecordPageNone(L, i) == L
NewRecordPage(L, i) ==
  IF i > 0 THEN [L EXCEPT !.pages = @ + 1, !.y = Margin] ELSE L

\* part_001 lines 241-274: header, relatedness indicator, summary; the
\* numbers are the lines relatednessExplanation and summary wrap to
RecordHeader(L, i, isRelated, explanation, summary) ==
  LET L1 == Advance(PwAddText(NewRecordPage(L, i), 1, 16, 0, "rec.header"), 400)
      L2 == IF isRelated THEN PwAddText(L1, 1, 10, 0, "rec.related")
            ELSE PwAddText(Advance(PwAddText(L1, 1, 10, 0, "rec.unrelated"), 200),
                           explanation, 9, 800, "rec.explanation")
      L3 == Advance(PwAddText(Advance(L2, 1200), 1, 12, 0, "summary.heading"), 400)
  IN Advance(PwAddText(L3, summary, 10, 0, "summary"), 1200)

PairwiseRecordHeader ==
  /\ rpc = "record" /\ profile = "pairwise" /\ recNo < Len(comparisonsList)
  /\ \E explanation \in {0, 1}, summary \in {1, MaxWrap} :
       LET L == RecordHeader(Layout(y, pdfPages, <<>>), recNo,
                             comparisonsList[recNo + 1], explanation, summary)
       IN y' = L.y /\ pdfPages' = L.pages /\ placed' = L.placed
  /\ rpc' = "verdict"
  /\ UNCHANGED <<profile, comparisonsList, recNo, lineNo, inCodeBlock,
                 codeBlockContent, totalPages, stampIdx, footers, headers,
                 saved, tvars, evars, svars,
                 fvars, ovars>>

\* what a step of the comparison loop leaves: cursor, page count, drawings
PwStep(L, next) ==
  /\ y' = L.y /\ pdfPages' = L.pages /\ placed' = L.placed
  /\ rpc' = next
  /\ UNCHANGED <<profile, comparisonsList, lineNo, inCodeBlock,
                 codeBlockContent, totalPages, stampIdx, footers, headers,
                 saved, tvars, evars, svars,
                 fvars, ovars>>

\* an optional section of a comparison that the input leaves out
Absent == [present |-> FALSE]

\* part_001 lines 277-296: explanation is the number of lines
\* overallVerdict.explanation wraps to
OverallVerdict(L, v) ==
  IF v.present
  THEN LET L1 == PwAddText(PwCheckPageBreak(L, 6000), 1, 12, 0, "verdict.heading")
           L2 == PwAddText(Advance(L1, 400), 1, 11, 800, "verdict.text")
       IN Advance(PwAddText(L2, v.explanation, 10, 800, "verdict.explanation"),
                  1200)
  ELSE L

VerdictInputs == {Absent, [present |-> TRUE, explanation |-> 1]}

PairwiseVerdict ==
  /\ rpc = "verdict" /\ profile = "pairwise"
  /\ \E v \in VerdictInputs :
       PwStep(OverallVerdict(Layout(y, pdfPages, <<>>), v), "dimensions")
  /\ UNCHANGED recNo

\* part_001 lines 363-366 and 382-385: the lines after the first, j = k - 1
ContinuationLine(L, k, tag) ==
  Advance(Draw(L, Item("text", tag, L.pages, L.y, L.y, Margin + 1600, k)), 1260)

RECURSIVE ContinuationLines(_, _, _, _)
ContinuationLines(L, k, n, tag) ==
  IF k > n THEN L
  ELSE IF k = n THEN ContinuationLine(L, k, tag)
  ELSE LET mid == (k + n) \div 2
           done == ContinuationLines(L, k, mid, tag)
       IN CASE done.pages >= L.pages ->  \* lines k..mid are drawn first
               ContinuationLines(done, mid + 1, n, tag)

\* part_001 lines 350-366 and 369-385: the label, then the summary from the
\* label's row on; n is the length of splitTextToSize(summary ?? "N/A").
\* The first line starts right of the label (kind "inline": its x is
\* margin + 16 plus the width of the label)
LabelledSummaryBelow(L, n, labelTag, tag) ==
  LET L1 == PwAddText(L, 1, 9, 1600, labelTag)
      L2 == Draw(L1, Item("inline", tag, L1.pages, L1.y, L1.y, Margin + 1600, 1))
  IN ContinuationLines(Advance(L2, 1260), 2, n, tag)
LabelledSummary(L, n, labelTag, tag) ==
  LET L1 == Advance(PwAddText(L, 1, 9, 1600, labelTag), -1260)
      L2 == Draw(L1, Item("inline", tag, L1.pages, L1.y, L1.y, Margin + 1600, 1))
  IN ContinuationLines(Advance(L2, 1260), 2, n, tag)

\* part_001 lines 305-386: one dimension
Dimension(L, dim) ==
  LET L1 == PwCheckPageBreak(L, 8000)
      L2 == Draw(L1, Item("text", "dim.label", L1.pages, L1.y, L1.y,
                          Margin + 800, 0))
      L3 == Draw(L2, Item("inline", "dim.verdict", L2.pages, L2.y, L2.y,
                          Margin + 800, 0))
      L4 == IF dim.scores
            THEN Draw(L3, Item("inline", "dim.scores", L3.pages, L3.y, L3.y,
                               Margin + 800, 0))
            ELSE L3
      L5 == LabelledSummary(Advance(L4, 1400), dim.main, "dim.mainLabel",
                            "dim.main")
      L6 == LabelledSummary(L5, dim.related, "dim.relatedLabel", "dim.related")
  IN Advance(L6, 600)

\* part_001 lines 304-387: the loop over the dimensions, from the k-th on
RECURSIVE DimensionLoop(_, _, _)
DimensionLoop(L, dims, k) ==
  IF k > Len(dims) THEN L
  ELSE DimensionLoop(Dimension(L, dims[k]), dims, k + 1)

\* part_001 lines 299-389
Dimensions(L, dims) ==
  IF Len(dims) > 0
  THEN LET L1 == PwAddText(PwCheckPageBreak(L, 4000), 1, 12, 0, "dim.heading")
       IN Advance(DimensionLoop(Advance(L1, 800), dims, 1), 800)
  ELSE L

\* a dimension: the lines its two summaries wrap to, and whether both scores
\* are given (and not 0)
Dim(main, related, scores) ==
  [main |-> main, related |-> related, scores |-> scores]

DimensionLists ==
  {<<>>, <<Dim(1, 1, TRUE), Dim(3, 2, FALSE)>>, <<Dim(MaxWrap, 1, FALSE)>>}

PairwiseDimensions ==
  /\ rpc = "dimensions" /\ profile = "pairwise"
  /\ \E dims \in DimensionLists :
       PwStep(Dimensions(Layout(y, pdfPages, <<>>), dims), "similarities")
  /\ UNCHANGED recNo

\* part_001 lines 401-406 and 420-429: the loop over the claims, each given
\* by the lines its bullet text wraps to, from the k-th on
RECURSIVE ClaimLoop(_, _, _, _)
ClaimLoop(L, claims, k, tag) ==
  IF k > Len(claims) THEN L
  ELSE ClaimLoop(PwAddText(PwCheckPageBreak(L, 2000), claims[k], 9, 800, tag),
                 claims, k + 1, tag)

\* part_001 lines 392-408
Similarities(L, claims) ==
  IF Len(claims) > 0
  THEN LET L1 == PwAddText(PwCheckPageBreak(L, 4000), 1, 12, 0, "sim.heading")
       IN Advance(ClaimLoop(Advance(L1, 400), claims, 1, "sim.claim"), 800)
  ELSE L

\* part_001 lines 411-431
Differences(L, claims) ==
  IF Len(claims) > 0
  THEN LET L1 == PwAddText(PwCheckPageBreak(L, 4000), 1, 12, 0, "diff.heading")
       IN Advance(ClaimLoop(Advance(L1, 400), claims, 1, "diff.claim"), 800)
  ELSE L

ClaimLists == {<<>>, <<1, 2>>}

PairwiseSimilarities ==
  /\ rpc = "similarities" /\ profile = "pairwise"
  /\ \E claims \in ClaimLists :
       PwStep(Similarities(Layout(y, pdfPages, <<>>), claims), "differences")
  /\ UNCHANGED recNo

PairwiseDifferences ==
  /\ rpc = "differences" /\ profile = "pairwise"
  /\ \E claims \in ClaimLists :
       PwStep(Differences(Layout(y, pdfPages, <<>>), claims), "gaps")
  /\ UNCHANGED recNo

\* part_001 lines 441-443 (448-450, 455-457, 580-582, 587-589): the loop over
\* the entries of a list, each given by the lines its bullet text wraps to
RECURSIVE BulletLoop(_, _, _, _)
BulletLoop(L, entries, k, tag) ==
  IF k > Len(entries) THEN L
  ELSE BulletLoop(PwAddText(L, entries[k], 9, 1600, tag), entries, k + 1, tag)

\* part_001 lines 439-444 (446-451, 453-458, 578-583, 585-590): a caption and
\* its list, when the list is there and not empty
BulletGroup(L, entries, tag) ==
  IF Len(entries) > 0
  THEN BulletLoop(PwAddText(L, 1, 10, 800, tag \o ".caption"), entries, 1,
                  tag \o ".entry")
  ELSE L

\* part_001 lines 434-460
GapAnalysis(L, gap) ==
  IF gap.present
  THEN LET L1 == PwAddText(PwCheckPageBreak(L, 6000), 1, 12, 0, "gap.heading")
           L2 == BulletGroup(Advance(L1, 400), gap.uniqueToMain, "gap.main")
           L3 == BulletGroup(L2, gap.uniqueToRelated, "gap.related")
       IN Advance(BulletGroup(L3, gap.sharedGaps, "gap.shared"), 800)
  ELSE L

GapInputs ==
  {Absent,
   [present |-> TRUE, uniqueToMain |-> <<>>, uniqueToRelated |-> <<>>,
    sharedGaps |-> <<>>],
   [present |-> TRUE, uniqueToMain |-> <<1>>, uniqueToRelated |-> <<>>,
    sharedGaps |-> <<2>>]}

PairwiseGapAnalysis ==
  /\ rpc = "gaps" /\ profile = "pairwise"
  /\ \E gap \in GapInputs :
       PwStep(GapAnalysis(Layout(y, pdfPages, <<>>), gap), "contradictions")
  /\ UNCHANGED recNo

\* part_001 lines 472-491: the loop over the contradictions, from the k-th on;
\* topic is the number of lines c.topic wraps to, the other three texts
\* start with a fixed word and are never empty
RECURSIVE ContradictionLoop(_, _, _)
ContradictionLoop(L, list, k) ==
  IF k > Len(list) THEN L
  ELSE LET c == list[k]
           L1 == PwAddText(PwCheckPageBreak(L, 5000), c.topic, 10, 800,
                           "contra.topic")
           L2 == PwAddText(L1, c.mainPosition, 9, 1600, "contra.main")
           L3 == PwAddText(L2, c.relatedPosition, 9, 1600, "contra.related")
           L4 == PwAddText(L3, c.possibleExplanation, 9, 1600,
                           "contra.explanation")
       IN ContradictionLoop(Advance(L4, 400), list, k + 1)

\* part_001 lines 463-493
Contradictions(L, list) ==
  IF Len(list) > 0
  THEN LET L1 == PwAddText(PwCheckPageBreak(L, 6000), 1, 12, 0,
                           "contra.heading")
       IN Advance(ContradictionLoop(Advance(L1, 400), list, 1), 800)
  ELSE L

ContradictionLists ==
  {<<>>,
   <<[topic |-> 1, mainPosition |-> 1, relatedPosition |-> 2,
      possibleExplanation |-> 1]>>}

PairwiseContradictions ==
  /\ rpc = "contradictions" /\ profile = "pairwise"
  /\ \E list \in ContradictionLists :
       PwStep(Contradictions(Layout(y, pdfPages, <<>>), list), "rigor")
  /\ UNCHANGED recNo

\* part_001 lines 520-539: the loop over rigorItems, from the k-th on
RECURSIVE RigorLoop(_, _, _)
RigorLoop(L, rigorItems, k) ==
  IF k > Len(rigorItems) THEN L
  ELSE LET item == rigorItems[k]
       IN IF ~item.present THEN RigorLoop(L, rigorItems, k + 1)
          ELSE LET L1 == PwAddText(PwCheckPageBreak(L, 4000), 1, 10, 800,
                                   "rigor.label")
                   L2 == PwAddText(L1, item.main, 9, 1600, "rigor.main")
                   L3 == PwAddText(L2, item.related, 9, 1600, "rigor.related")
               IN RigorLoop(Advance(L3, 200), rigorItems, k + 1)

\* part_001 lines 496-541
MethodologicalRigor(L, rigor) ==
  IF rigor.present
  THEN LET L1 == PwAddText(PwCheckPageBreak(L, 8000), 1, 12, 0, "rigor.heading")
       IN Advance(RigorLoop(Advance(L1, 400), rigor.items, 1), 800)
  ELSE L

\* item.data: the lines "Main: ..." and "Related: ..." wrap to
RigorData(main, related) == [present |-> TRUE, main |-> main, related |-> related]

RigorInputs ==
  {Absent,
   [present |-> TRUE, items |-> <<Absent, Absent, Absent, Absent>>],
   [present |-> TRUE,
    items |-> <<RigorData(1, 1), Absent, RigorData(2, 1), Absent>>]}

PairwiseRigor ==
  /\ rpc = "rigor" /\ profile = "pairwise"
  /\ \E rigor \in RigorInputs :
       PwStep(MethodologicalRigor(Layout(y, pdfPages, <<>>), rigor), "temporal")
  /\ UNCHANGED recNo

\* part_001 lines 544-570: the three texts start with a fixed word
TemporalContext(L, t) ==
  IF t.present
  THEN LET L1 == PwAddText(PwCheckPageBreak(L, 6000), 1, 12, 0,
                           "temporal.heading")
           L2 == PwAddText(Advance(L1, 400), t.chronologicalNote, 9, 800,
                           "temporal.chronology")
           L3 == PwAddText(L2, t.methodologicalEvolution, 9, 800,
                           "temporal.method")
       IN Advance(PwAddText(L3, t.findingsProgression, 9, 800,
                            "temporal.findings"), 800)
  ELSE L

TemporalInputs ==
  {Absent,
   [present |-> TRUE, chronologicalNote |-> 1, methodologicalEvolution |-> 1,
    findingsProgression |-> 2]}

PairwiseTemporal ==
  /\ rpc = "temporal" /\ profile = "pairwise"
  /\ \E t \in TemporalInputs :
       PwStep(TemporalContext(Layout(y, pdfPages, <<>>), t), "recommendations")
  /\ UNCHANGED recNo

\* part_001 lines 573-603: synthesizedConclusion is the number of lines it
\* wraps to, 0 when it is empty or missing
Recommendations(L, r) ==
  IF r.present
  THEN LET L1 == PwAddText(PwCheckPageBreak(L, 8000), 1, 12, 0, "rec.heading")
           L2 == BulletGroup(Advance(L1, 400), r.forResearchers,
                             "rec.researchers")
           L3 == BulletGroup(L2, r.forPractitioners, "rec.practitioners")
       IN IF r.synthesizedConclusion > 0
          THEN PwAddText(PwAddText(Advance(L3, 400), 1, 10, 800,
                                   "rec.conclusion.caption"),
                         r.synthesizedConclusion, 9, 800, "rec.conclusion")
          ELSE L3
  ELSE L

RecommendationInputs ==
  {Absent,
   [present |-> TRUE, forResearchers |-> <<>>, forPractitioners |-> <<>>,
    synthesizedConclusion |-> 0],
   [present |-> TRUE, forResearchers |-> <<1>>, forPractitioners |-> <<>>,
    synthesizedConclusion |-> 2]}

\* part_001 lines 573-604, 232: the last section, then i++
PairwiseRecommendations ==
  /\ rpc = "recommendations" /\ profile = "pairwise"
  /\ \E r \in RecommendationInputs :
       PwStep(Recommendations(Layout(y, pdfPages, <<>>), r), "record")
  /\ recNo' = recNo + 1

\* part_001 lines 232, 607: the loop is over, totalPages
PairwiseFinishLayout ==
  /\ rpc = "record" /\ profile = "pairwise" /\ recNo >= Len(comparisonsList)
  /\ totalPages' = pdfPages /\ stampIdx' = 1 /\ rpc' = "stamp"
  /\ placed' = <<>>
  /\ UNCHANGED <<profile, comparisonsList, recNo, y, pdfPages, lineNo,
                 inCodeBlock, codeBlockContent, footers, headers, saved, tvars,
                 evars, svars,
                 fvars, ovars>>

\* part_001 line 608: i <= totalPages
PwStampMore(i, total) == i <= total

\* part_001 lines 608-618: one iteration, the footer on page i
PairwiseStampPage ==
  /\ rpc = "stamp" /\ profile = "pairwise" /\ PwStampMore(stampIdx, totalPages)
  /\ footers' = Append(footers, [page |-> stampIdx, num |-> stampIdx,
                                 of |-> totalPages])
  /\ stampIdx' = stampIdx + 1
  /\ UNCHANGED <<rpc, profile, comparisonsList, recNo, y, pdfPages, lineNo,
                 inCodeBlock, codeBlockContent, placed, totalPages, headers,
                 saved, tvars, evars, svars,
                 fvars, ovars>>

\* part_001 line 620
PairwiseSave ==
  /\ rpc = "stamp" /\ profile = "pairwise" /\ ~PwStampMore(stampIdx, totalPages)
  /\ saved' = TRUE /\ rpc' = "saved"
  /\ savedAs' = SaveName(fileName, DefaultPairwiseName)
  /\ UNCHANGED <<profile, comparisonsList, recNo, y, pdfPages, lineNo,
                 inCodeBlock, codeBlockContent, placed, totalPages, stampIdx,
                 footers, headers, tvars, evars, svars, articleTitle, fileName,
                 ovars>>

NextPairwise ==
  \/ PairwiseInvoke \/ PairwiseTitlePage \/ PairwiseRecordHeader
  \/ PairwiseVerdict \/ PairwiseDimensions \/ PairwiseSimilarities
  \/ PairwiseDifferences \/ PairwiseGapAnalysis \/ PairwiseContradictions
  \/ PairwiseRigor \/ PairwiseTemporal \/ PairwiseRecommendations
  \/ PairwiseFinishLayout \/ PairwiseStampPage \/ PairwiseSave

NextReport == ReportInvoke \/ RenderLine \/ ReportFinishLayout \/ ReportStampPage \/ ReportSave

InitRender ==
  /\ rpc = "start" /\ profile \in {"report", "pairwise"}
  /\ y = 0 /\ pdfPages = 0 /\ lineNo = 0
  /\ inCodeBlock = FALSE /\ codeBlockContent = <<>> /\ placed = <<>>
  /\ totalPages = 0 /\ stampIdx = 0 /\ footers = <<>> /\ headers = <<>>
  /\ saved = FALSE /\ comparisonsList = <<>> /\ recNo = 0
  /\ TwiceIdle /\ ExtractIdle /\ ScanIdle /\ FileNameIdle /\ OthersIdle

NextRender == NextReport \/ NextPairwise

SpecRender == InitRender /\ [][NextRender]_vars

(***************************************************************************)
(* Two invocations of exportFinalReportToPdf on the same markdown.         *)
(***************************************************************************)
\* the lines of the recorded inputs: one of each shape of block, the texts
\* that wrap to MaxWrap lines bring the cursor to the bottom of the page
TwiceLines ==
  {Line("fence", 0, 0), Line("blank", 0, 0), Line("rule", 0, 0),
   Line("h1", 2, 0), Line("quote", 2, 0), Line("para", MaxWrap, 0),
   Line("ul", 2, 1)}

RECURSIVE SeqsUpTo(_, _)
SeqsUpTo(S, n) ==
  IF n = 0 THEN {<<>>}
  ELSE LET shorter == SeqsUpTo(S, n - 1)
       IN shorter \cup {Append(q, x) : q \in shorter, x \in S}

\* markdown.split("\n") has at least one element
Markdowns == SeqsUpTo(TwiceLines, MaxTwiceLines) \ {<<>>}

InitTwice ==
  /\ rpc = "start" /\ profile = "report"
  /\ y = 0 /\ pdfPages = 0 /\ lineNo = 0
  /\ inCodeBlock = FALSE /\ codeBlockContent = <<>> /\ placed = <<>>
  /\ totalPages = 0 /\ stampIdx = 0 /\ footers = <<>> /\ headers = <<>>
  /\ saved = FALSE /\ comparisonsList = <<>> /\ recNo = 0
  /\ markdown \in Markdowns /\ run = 1 /\ log = <<>>
  /\ first = [log |-> <<>>, pages |-> 0, footers |-> <<>>, headers |-> <<>>]
  /\ ExtractIdle /\ ScanIdle /\ FileNameIdle /\ OthersIdle

\* part_003 line 3: the caller calls the function again with the same
\* arguments; what the first call produced is kept for the comparison
TwiceAgain ==
  /\ run = 1 /\ rpc = "saved"
  /\ first' = [log |-> log, pages |-> pdfPages, footers |-> footers,
               headers |-> headers]
  /\ run' = 2 /\ rpc' = "start"
  /\ UNCHANGED <<profile, y, pdfPages, lineNo, inCodeBlock, codeBlockContent,
                 placed, totalPages, stampIdx, footers, headers, saved,
                 comparisonsList, recNo, markdown, log, evars, svars,
                 fvars, ovars>>

NextTwice == NextReport \/ TwiceAgain

SpecTwice == InitTwice /\ [][NextTwice]_vars

(***************************************************************************)
(* Properties of the renderers.                                            *)
(***************************************************************************)
\* the lowest position content may take on a page
BottomLimit == PageHeight - Margin

\* C1: in both renderers nothing that is placed (text line, rule, list
\* marker, quote border or line, code rectangle or line, label value line)
\* reaches below pageHeight - margin on its page.
C1_WithinBottomMargin ==
  \A i \in DOMAIN placed : placed[i].bot <= BottomLimit

FootersOn(p) == {k \in DOMAIN footers : footers[k].page = p}
HeadersOn(p) == {k \in DOMAIN headers : headers[k].page = p}

\* C9: once the document is saved, each page i of its N pages has exactly
\* one footer, reading "Page i of N" with N the final number of pages, and in
\* the report profile exactly one header (none is drawn by the pairwise
\* profile); once a footer is written no page is added and nothing more is
\* placed.
C9_StampedOnce ==
  /\ [](rpc = "saved" =>
          (/\ \A k \in DOMAIN footers : footers[k].page \in 1..pdfPages
           /\ \A p \in 1..pdfPages :
                (/\ Cardinality(FootersOn(p)) = 1
                 /\ \A k \in FootersOn(p) :
                      (footers[k].num = p /\ footers[k].of = pdfPages)
                 /\ Cardinality(HeadersOn(p)) =
                      (IF profile = "report" THEN 1 ELSE 0))))
  /\ [][(footers # <<>>) => (pdfPages' = pdfPages /\ placed' = <<>>)]_vars

C9_Witness ==
  /\ rpc = "saved" /\ profile = "report" /\ pdfPages >= 2
  /\ Len(footers) = pdfPages /\ Len(headers) = pdfPages

\* C10: a second invocation of exportFinalReportToPdf on the same markdown
\* places the same blocks in the same order at the same positions and ends
\* with the same number of pages (and the same stamps) as the first.
C10_SameTwice ==
  (run = 2 /\ rpc = "saved") =>
    (/\ log = first.log
     /\ pdfPages = first.pages
     /\ footers = first.footers
     /\ headers = first.headers)

C10_Witness ==
  /\ run = 2 /\ rpc = "saved" /\ pdfPages >= 2 /\ Len(log) > MaxWrap
  /\ inCodeBlock

SectionHeadings ==
  {"dim.heading", "sim.heading", "diff.heading", "gap.heading",
   "contra.heading", "rigor.heading", "temporal.heading", "rec.heading"}

\* C12: in the pairwise profile an optional section without data places
\* nothing: whenever the heading of a section is placed, a body line of that
\* section is placed after it.
C12_NoEmptySection ==
  \A i \in DOMAIN placed :
    (placed[i].tag \in SectionHeadings) => (Len(placed) > i)

(***************************************************************************)
(* The file name of the report, over titles.                               *)
(***************************************************************************)
\* the characters of the titles: a letter, a digit, a space, a hyphen and a
\* character the pattern removes
TitleChars == {"a", "7", " ", "-", "!"}

\* a title start that takes the title up to two characters below TitleLimit
TitlePad == [i \in 1..(TitleLimit - 2) |-> "a"]

Titles ==
  {pad \o t : pad \in {<<>>, TitlePad}, t \in SeqsUpTo(TitleChars, MaxTitle)}

FileNames == {NoFileName, [given |-> TRUE, name |-> <<"o", ".", "p", "d", "f">>]}

\* exportFinalReportToPdf("", articleTitle, fileName)
InitFileName ==
  /\ rpc = "start" /\ profile = "report"
  /\ y = 0 /\ pdfPages = 0 /\ lineNo = 0
  /\ inCodeBlock = FALSE /\ codeBlockContent = <<>> /\ placed = <<>>
  /\ totalPages = 0 /\ stampIdx = 0 /\ footers = <<>> /\ headers = <<>>
  /\ saved = FALSE /\ comparisonsList = <<>> /\ recNo = 0
  /\ markdown = <<Line("blank", 0, 0)>> /\ run = 1 /\ log = <<>>
  /\ first = [log |-> <<>>, pages |-> 0, footers |-> <<>>, headers |-> <<>>]
  /\ articleTitle \in Titles /\ fileName \in FileNames /\ savedAs = <<>>
  /\ ExtractIdle /\ ScanIdle /\ OthersIdle

SpecFileName == InitFileName /\ [][NextReport]_vars

\* the part of a saved name before the suffix of the report
Stem(name) == SubSeq(name, 1, Len(name) - Len(ReportSuffix))

IsAlnum(c) == c \in Letters \/ c \in Digits

\* C13: for a non-empty title (and no fileName given) the saved name ends
\* with "-critical-analysis.pdf", the part before it contains only letters,
\* digits and hyphens, and two consecutive words (runs of letters and digits)
\* of it are separated by a single hyphen.
C13_Slug ==
  (rpc = "saved" /\ articleTitle # <<>> /\ ~fileName.given) =>
    LET stem == Stem(savedAs)
    IN /\ Len(savedAs) >= Len(ReportSuffix)
       /\ SubSeq(savedAs, Len(stem) + 1, Len(savedAs)) = ReportSuffix
       /\ \A i \in DOMAIN stem : (IsAlnum(stem[i]) \/ stem[i] = "-")
       /\ \A i \in DOMAIN stem : \A j \in DOMAIN stem :
            ((/\ i < j /\ IsAlnum(stem[i]) /\ IsAlnum(stem[j])
              /\ \A k \in (i + 1)..(j - 1) : stem[k] = "-")
               => (j <= i + 2))

(***************************************************************************)
(* Preconditions of the renderers.                                         *)
(***************************************************************************)
\* C14: a render call without a browser window, or with an empty comparison
\* collection, ends with an error before the document has a page and before
\* a file is saved.
C14_Preconditions ==
  /\ (rpc = "threw") => (pdfPages = 0 /\ ~saved)
  /\ (profile = "pairwise" /\ rpc # "start" /\ comparisonsList = <<>>) =>
       (rpc = "threw" /\ pdfPages = 0 /\ ~saved)

(***************************************************************************)
(* MaintenanceWrapper (part_000).                                          *)
(***************************************************************************)
BypassValues == {StorageNull, "true", "false", "TRUE", "1"}

\* process.env.NODE_ENV
NodeEnvs == {"development", "production", "test"}

\* part_000 lines 28-41: what a render returns
MwViewNoWait(mode, env, isChecked, isBypassed) ==
  IF mode /\ env # "development" /\ ~isBypassed THEN "maintenance"
  ELSE "children"
MwView(mode, env, isChecked, isBypassed) ==
  LET isDevelopment == env = "development"
  IN IF ~isChecked /\ mode /\ ~isDevelopment THEN "null"
     ELSE IF mode /\ ~isDevelopment /\ ~isBypassed THEN "maintenance"
     ELSE "children"

\* the build (MAINTENANCE_MODE is true in config/maintenance.ts, a build may
\* set it to false), the environment and the session storage of the tab
InitMaintenance ==
  /\ mpc = "unmounted" /\ view = "none"
  /\ nodeEnv \in NodeEnvs /\ maintenanceMode \in BOOLEAN
  /\ bypassValue \in BypassValues
  /\ bypassed = FALSE /\ checked = FALSE
  /\ ExtractIdle /\ ScanIdle /\ RenderIdle /\ TwiceIdle /\ FileNameIdle
  /\ ClassifyIdle /\ AppIdle

\* part_000 lines 16-17, 28-41: the first render, with the initial state
MwMount ==
  /\ mpc = "unmounted"
  /\ bypassed' = FALSE /\ checked' = FALSE
  /\ view' = MwView(maintenanceMode, nodeEnv, FALSE, FALSE)
  /\ mpc' = "mounted"
  /\ UNCHANGED <<nodeEnv, maintenanceMode, bypassValue, cvars, xvars, evars, svars,
                 rvars, tvars, fvars>>

\* part_000 lines 19-26: the effect, once after the first render
MwEffect ==
  /\ mpc = "mounted"
  /\ bypassed' = IF bypassValue = "true" THEN TRUE ELSE bypassed
  /\ checked' = TRUE
  /\ mpc' = "effect"
  /\ UNCHANGED <<view, nodeEnv, maintenanceMode, bypassValue, cvars, xvars,
                 evars, svars, rvars, tvars, fvars>>

\* part_000 lines 28-41: the render that the state change schedules
MwRerender ==
  /\ mpc = "effect"
  /\ view' = MwView(maintenanceMode, nodeEnv, checked, bypassed)
  /\ mpc' = "settled"
  /\ UNCHANGED <<bypassed, checked, nodeEnv, maintenanceMode, bypassValue,
                 cvars, xvars, evars, svars, rvars, tvars, fvars>>

\* the page is loaded again: the component state is lost, the session
\* storage of the tab is kept
MwReload ==
  /\ mpc # "unmounted"
  /\ mpc' = "unmounted" /\ view' = "none"
  /\ bypassed' = FALSE /\ checked' = FALSE
  /\ UNCHANGED <<nodeEnv, maintenanceMode, bypassValue, cvars, xvars, evars, svars,
                 rvars, tvars, fvars>>

NextMaintenance == MwMount \/ MwEffect \/ MwRerender \/ MwReload

SpecMaintenance == InitMaintenance /\ [][NextMaintenance]_vars

\* C15: once mounted the wrapper shows the children whenever the build is in
\* development mode or MAINTENANCE_MODE is false; in production with
\* MAINTENANCE_MODE true it shows the children only after the stored bypass
\* flag was read and is "true", and until the flag has been read and the
\* component rendered again it shows nothing (neither children nor the
\* maintenance page).
C15_MaintenanceGate ==
  /\ (mpc # "unmounted" /\ (nodeEnv = "development" \/ ~maintenanceMode)) =>
       (view = "children")
  /\ (nodeEnv = "production" /\ maintenanceMode /\ view = "children") =>
       (checked /\ bypassed /\ bypassValue = "true")
  /\ (nodeEnv = "production" /\ maintenanceMode /\ mpc \in {"mounted", "effect"})
       => (view = "null")

C15_Witness ==
  /\ nodeEnv = "production" /\ maintenanceMode /\ mpc = "settled"
  /\ view = "children" /\ bypassValue = "true"

(***************************************************************************)
(* Properties of the layout of the report.                                 *)
(***************************************************************************)
\* C16: apart from the wrapped lines of addText no block is split over two
\* pages: the border and the lines of a quote, the rectangle and the lines
\* of a code block, the rule of a level-1 heading and the heading line
\* before it, a list marker and the first line of its item are on one page.
C16_BlocksWhole ==
  \A i \in DOMAIN placed : \A j \in DOMAIN placed :
    /\ (placed[i].tag = placed[j].tag /\ placed[i].tag \in {"quote", "code"})
         => (placed[i].page = placed[j].page)
    /\ (/\ placed[i].kind \in {"bullet", "marker"}
        /\ placed[j].tag = placed[i].tag /\ placed[j].ln = 1)
         => (placed[i].page = placed[j].page)
    /\ (/\ placed[i].kind = "rule" /\ placed[i].tag = "h1"
        /\ j = i - 1 /\ placed[j].tag = "h1")
         => (placed[i].page = placed[j].page)

\* where the cursor starts, on the first page and after a page break
TopOf(prof) == IF prof = "report" THEN ReportTop ELSE Margin

IsWrapped(item) == "h" \in DOMAIN item

\* C17: in both renderers the cursor starts at the top position; every line
\* placed by addText has room for its row above pageHeight - margin or is at
\* the top position; the next line of the same text is one row below on the
\* same page when that row has room, and otherwise at the top position of
\* the next page; after a paragraph the cursor is one row below its last
\* line.
C17_AddTextRows ==
  /\ (rpc \in {"lines", "title"} /\ lineNo = 0) => (y = TopOf(profile))
  /\ \A i \in DOMAIN placed :
       IsWrapped(placed[i]) =>
         (\/ placed[i].y + placed[i].h <= BottomLimit
          \/ placed[i].y = TopOf(profile))
  /\ \A i \in DOMAIN placed :
       (/\ i < Len(placed) /\ IsWrapped(placed[i]) /\ IsWrapped(placed[i + 1])
        /\ placed[i + 1].tag = placed[i].tag
        /\ placed[i + 1].ln = placed[i].ln + 1) =>
         (IF placed[i].y + 2 * placed[i].h > BottomLimit
          THEN /\ placed[i + 1].page = placed[i].page + 1
               /\ placed[i + 1].y = TopOf(profile)
          ELSE /\ placed[i + 1].page = placed[i].page
               /\ placed[i + 1].y = placed[i].y + placed[i].h)
  /\ (placed # <<>> /\ placed[Len(placed)].tag = "para") =>
       (/\ y = placed[Len(placed)].y + placed[Len(placed)].h
        /\ pdfPages = placed[Len(placed)].page)

C17_Witness ==
  \E i \in DOMAIN placed :
    /\ IsWrapped(placed[i]) /\ placed[i].ln > 1 /\ placed[i].page >= 2
    /\ placed[i].y = TopOf(profile)
    /\ placed[i - 1].page = placed[i].page - 1

(***************************************************************************)
(* The fence scanner of exportFinalReportToPdf on whole documents.         *)
(***************************************************************************)
MaxFenceLines == 5

\* the lines of the documents: the fence and three lines that differ
FenceLines ==
  {Line("fence", 0, 0), Line("blank", 0, 0), Line("h1", 2, 0), Line("para", 2, 0)}

FenceMarkdowns == SeqsUpTo(FenceLines, MaxFenceLines) \ {<<>>}

InitFence ==
  /\ rpc = "start" /\ profile = "report"
  /\ y = 0 /\ pdfPages = 0 /\ lineNo = 0
  /\ inCodeBlock = FALSE /\ codeBlockContent = <<>> /\ placed = <<>>
  /\ totalPages = 0 /\ stampIdx = 0 /\ footers = <<>> /\ headers = <<>>
  /\ saved = FALSE /\ comparisonsList = <<>> /\ recNo = 0
  /\ markdown \in FenceMarkdowns /\ run = 1 /\ log = <<>>
  /\ first = [log |-> <<>>, pages |-> 0, footers |-> <<>>, headers |-> <<>>]
  /\ ExtractIdle /\ ScanIdle /\ FileNameIdle /\ OthersIdle

SpecFence == InitFence /\ [][NextReport]_vars

\* the buffered lines the drawings of a step print, in the order drawn
RECURSIVE CodeSources(_)
CodeSources(items) ==
  IF items = <<>> THEN <<>>
  ELSE IF Head(items).kind = "code"
       THEN <<Head(items).src>> \o CodeSources(Tail(items))
       ELSE CodeSources(Tail(items))

FencesBefore(md, i) == Cardinality({j \in 1..(i - 1) : md[j].kind = "fence"})

\* line i of md is between an opening fence and a closing fence that is
\* among the first upTo lines
InClosedBlock(md, i, upTo) ==
  /\ md[i].kind # "fence"
  /\ FencesBefore(md, i) % 2 = 1
  /\ \E j \in (i + 1)..upTo : md[j].kind = "fence"

RECURSIVE ClosedBlockLines(_, _, _)
ClosedBlockLines(md, i, upTo) ==
  IF i > upTo THEN <<>>
  ELSE (IF InClosedBlock(md, i, upTo) THEN <<md[i]>> ELSE <<>>)
       \o ClosedBlockLines(md, i + 1, upTo)

\* C18: a fence line toggles inCodeBlock; a line read inside a code block is
\* appended to the buffer and nothing is drawn for it; the closing fence draws
\* the buffered lines in their order with at most one background and leaves
\* the buffer empty; over the whole document the code lines drawn are the
\* lines between an opening and a closing fence, each once.
C18_Step ==
  (rpc = "lines" /\ lineNo' = lineNo + 1) =>
    LET ln == markdown[lineNo + 1]
    IN IF ln.kind = "fence"
       THEN /\ inCodeBlock' = ~inCodeBlock
            /\ codeBlockContent' = <<>>
            /\ IF inCodeBlock
               THEN /\ CodeSources(placed') = codeBlockContent
                    /\ \A i \in DOMAIN placed' : placed'[i].tag = "code"
                    /\ Cardinality({i \in DOMAIN placed' : placed'[i].kind = "rect"})
                         = IF codeBlockContent = <<>> THEN 0 ELSE 1
               ELSE placed' = <<>> /\ y' = y /\ pdfPages' = pdfPages
       ELSE IF inCodeBlock
            THEN /\ inCodeBlock'
                 /\ codeBlockContent' = Append(codeBlockContent, ln)
                 /\ placed' = <<>> /\ y' = y /\ pdfPages' = pdfPages
            ELSE /\ ~inCodeBlock' /\ codeBlockContent' = <<>>
                 /\ CodeSources(placed') = <<>>

C18_State ==
  /\ ~inCodeBlock => codeBlockContent = <<>>
  /\ rpc = "lines" =>
       /\ inCodeBlock = (FencesBefore(markdown, lineNo + 1) % 2 = 1)
       /\ CodeSources(log) = ClosedBlockLines(markdown, 1, lineNo)

C18_FenceScanner == []C18_State /\ [][C18_Step]_vars

\* a closing fence has just drawn two buffered lines
C18_Witness ==
  /\ rpc = "lines" /\ lineNo >= 4 /\ ~inCodeBlock
  /\ markdown[lineNo].kind = "fence"
  /\ Len(CodeSources(placed)) >= 2
  /\ CodeSources(placed)[1] # CodeSources(placed)[2]
  /\ CodeSources(placed)[1].kind = "h1"

(***************************************************************************)
(* The classification of one line by the loop body of                      *)
(* exportFinalReportToPdf, outside a code block.                           *)
(***************************************************************************)
MaxLineLen == 3
MaxHashes == 5

Str3(a, b, c) == <<a, b, c>>

\* the backtick character (a string of this module cannot hold it)
Backtick == "U+0060"

\* String.prototype.startsWith
StartsWith(s, p) == Len(s) >= Len(p) /\ SubSeq(s, 1, Len(p)) = p

\* line 164: /^[-*_]{3,}$/
IsRuleTwoOrMore(s) == Len(s) >= 2 /\ \A i \in DOMAIN s : s[i] \in {"-", "*", "_"}
IsRule(s) == Len(s) >= 3 /\ \A i \in DOMAIN s : s[i] \in {"-", "*", "_"}

\* the length of the match of ^(\s*)
LeadingSpace(s) == Len(s) - Len(TrimStart(s))

\* the length of the match of \d* at position from
RECURSIVE DigitRun(_, _)
DigitRun(s, from) ==
  IF from <= Len(s) /\ s[from] \in Digits THEN 1 + DigitRun(s, from + 1) ELSE 0

\* line 195: /^(\s*)[-*+]\s+(.*)$/ ; the lines read have no line terminator,
\* which (.*) would not match
UlMatch(s) ==
  LET k == LeadingSpace(s)
  IN /\ Len(s) >= k + 2
     /\ s[k + 1] \in {"-", "*", "+"}
     /\ IsSpace(s[k + 2])

\* line 211: /^(\s*)(\d+)\.\s+(.*)$/
OlMatch(s) ==
  LET k == LeadingSpace(s)
      d == DigitRun(s, k + 1)
  IN /\ d >= 1
     /\ Len(s) >= k + d + 2
     /\ s[k + d + 1] = "."
     /\ IsSpace(s[k + d + 2])

\* lines 85-230: the branch the loop body takes for a line read outside a
\* code block, in the order of the tests
Classify(line) ==
  IF StartsWith(line, Str3(Backtick, Backtick, Backtick)) THEN "fence"
  ELSE IF Trim(line) = <<>> THEN "blank"
  ELSE IF StartsWith(line, <<"#", " ">>) THEN "h1"
  ELSE IF StartsWith(line, <<"#", "#", " ">>) THEN "h2"
  ELSE IF StartsWith(line, <<"#", "#", "#", " ">>) THEN "h3"
  ELSE IF StartsWith(line, <<"#", "#", "#", "#", " ">>) THEN "h4"
  ELSE IF IsRule(line) THEN "rule"
  ELSE IF StartsWith(line, <<">", " ">>) THEN "quote"
  ELSE IF UlMatch(line) THEN "ul"
  ELSE IF OlMatch(line) THEN "ol"
  ELSE "para"

\* the characters of the lines read
LineChars == {"#", " ", "\t", "-", "*", "_", "+", ">", "1", ".", "a", Backtick}

Hashes(k) == [i \in 1..k |-> "#"]

\* the lines read: up to MaxHashes hashes followed by up to MaxLineLen characters
ClassifyInputs ==
  {Hashes(k) \o t : k \in 0..MaxHashes, t \in SeqsUpTo(LineChars, MaxLineLen)}

InitClassify ==
  /\ cpc = "read" /\ mdLine \in ClassifyInputs /\ lineKind = ""
  /\ RenderIdle /\ TwiceIdle /\ ExtractIdle /\ ScanIdle /\ FileNameIdle
  /\ MaintenanceIdle /\ AppIdle

\* lines 81-230: one iteration of the loop with inCodeBlock = false
ClassifyLine ==
  /\ cpc = "read"
  /\ lineKind' = Classify(mdLine)
  /\ cpc' = "done"
  /\ UNCHANGED <<mdLine, mvars, xvars, evars, svars, rvars, tvars, fvars>>

NextClassify == ClassifyLine

SpecClassify == InitClassify /\ [][NextClassify]_vars

\* the number of hashes the line starts with
RECURSIVE HashRun(_)
HashRun(s) == IF s # <<>> /\ Head(s) = "#" THEN 1 + HashRun(Tail(s)) ELSE 0

\* the kind of a line by the order: heading of level 1-4, blank, rule, quote,
\* unordered item, ordered item, paragraph
KindByPriority(s) ==
  IF HashRun(s) \in 1..4 /\ Len(s) > HashRun(s) /\ s[HashRun(s) + 1] = " "
  THEN <<"h1", "h2", "h3", "h4">>[HashRun(s)]
  ELSE IF \A i \in DOMAIN s : IsSpace(s[i]) THEN "blank"
  ELSE IF Len(s) >= 3 /\ {s[i] : i \in DOMAIN s} \subseteq {"-", "*", "_"} THEN "rule"
  ELSE IF Len(s) >= 2 /\ s[1] = ">" /\ s[2] = " " THEN "quote"
  ELSE IF UlMatch(s) THEN "ul"
  ELSE IF OlMatch(s) THEN "ol"
  ELSE "para"

\* C19: a line that is not a fence gets the kind of the first pattern it
\* matches in the order heading 1-4, blank, rule, quote, unordered item,
\* ordered item, paragraph; three hyphens and three asterisks are rules; a line that starts
\* with five or more hashes is a paragraph.
C19_Classification ==
  (cpc = "done" /\ lineKind # "fence") =>
    /\ lineKind = KindByPriority(mdLine)
    /\ mdLine \in {Str3("-", "-", "-"), Str3("*", "*", "*")} => lineKind = "rule"
    /\ HashRun(mdLine) >= 5 => lineKind = "para"

C19_Witness ==
  /\ cpc = "done" /\ lineKind = "para"
  /\ mdLine = Hashes(5) \o <<" ", "a">>

\* the height of a row of a labelled summary: 9 * 1.4
SummaryRow == PwLineHeight(9)

IsSummaryLabel(item) == item.tag \in {"dim.mainLabel", "dim.relatedLabel"}

ValueTag(label) == IF label.tag = "dim.mainLabel" THEN "dim.main" ELSE "dim.related"

\* the number of drawings of the value that follow the label at index i
ValueLines(items, i) ==
  Cardinality({j \in (i + 1)..Len(items) :
                 \A m \in (i + 1)..j : items[m].tag = ValueTag(items[i])})

Max(a, b) == IF a >= b THEN a ELSE b

\* C20: in a dimension the first line of the value is drawn on the page and
\* at the height of its label, line k of the value is drawn k - 1 rows below
\* the label at the child indent, and the cursor after the field is
\* max(1, number of lines) rows below the label: the next label is drawn
\* there (or on the next page when its row has no room), the next dimension
\* starts 6 pt below it, and after the last dimension the cursor is 6 + 8 pt
\* below it.
C20_LabelledField ==
  profile = "pairwise" =>
    \A i \in DOMAIN placed :
      IsSummaryLabel(placed[i]) =>
        LET label == placed[i]
            n == ValueLines(placed, i)
            after == label.y + Max(1, n) * SummaryRow
            next == i + n + 1
        IN /\ n >= 1
           /\ placed[i + 1].kind = "inline"
           /\ placed[i + 1].page = label.page /\ placed[i + 1].y = label.y
           /\ \A j \in (i + 2)..(i + n) :
                /\ placed[j].ln = j - i
                /\ placed[j].page = label.page
                /\ placed[j].y = label.y + (j - i - 1) * SummaryRow
                /\ placed[j].x = Margin + 1600
           /\ IF next > Len(placed)
              THEN rpc = "similarities" =>
                     (y = after + 600 + 800 /\ pdfPages = label.page)
              ELSE IF label.tag = "dim.mainLabel"
              THEN /\ placed[next].tag = "dim.relatedLabel"
                   /\ IF after + SummaryRow > BottomLimit
                      THEN placed[next].page = label.page + 1 /\ placed[next].y = Margin
                      ELSE placed[next].page = label.page /\ placed[next].y = after
              ELSE /\ placed[next].tag = "dim.label"
                   /\ IF after + 600 + 8000 > BottomLimit
                      THEN placed[next].page = label.page + 1 /\ placed[next].y = Margin
                      ELSE placed[next].page = label.page /\ placed[next].y = after + 600

\* a value of three lines under its label
C20_Witness ==
  /\ profile = "pairwise" /\ rpc = "similarities"
  /\ \E i \in DOMAIN placed :
       /\ placed[i].tag = "dim.mainLabel" /\ ValueLines(placed, i) = 3
       /\ placed[i + 3].y = placed[i].y + 2 * SummaryRow

\* a label whose row had no room below the field before it
C20_BreakWitness ==
  /\ profile = "pairwise"
  /\ \E i \in DOMAIN placed :
       /\ placed[i].tag = "dim.relatedLabel" /\ placed[i].y = Margin
       /\ placed[i - 1].tag = "dim.main" /\ placed[i - 1].page = placed[i].page - 1

(***************************************************************************)
(* The two object tables of a page.                                        *)
(***************************************************************************)
\* a lookup yields pixel data
YieldsPixels(ans) == ans.res = "obj" /\ ans.hasData

\* the table entry the image is to come from: the page-local one when it
\* yields pixel data, the common one otherwise
FirstWithPixels(op) == IF YieldsPixels(op.local) THEN op.local ELSE op.common

\* C21: a paint operator whose name was not seen before on the page, whose
\* pixel data is in the page-local table or else in the common table, at
\* least 50 x 50 and encoded by the canvas, adds that image to images.
C21_Fallback ==
  [][(/\ spc = "scan" /\ opIdx' = opIdx + 1
      /\ IsPaintImage(lastOp'.fn) /\ lastOp'.name # ""
      /\ ~InSeq(lastOp'.name, seenImages)
      /\ YieldsPixels(FirstWithPixels(lastOp'))
      /\ FirstWithPixels(lastOp').width >= MinImageSize
      /\ FirstWithPixels(lastOp').height >= MinImageSize
      /\ lastOp'.decode = "url")
     => images' = Append(images,
                         ExtractedImage(lastOp'.name, FirstWithPixels(lastOp').width,
                                        FirstWithPixels(lastOp').height))]_vars

(***************************************************************************)
(* The text of a page.                                                     *)
(***************************************************************************)
IsStringFragment(it) == it.isObj /\ it.hasStr

\* the strings of the text items of a page, in order, the empty ones too
StringFragments(items) ==
  LET frags == SelectSeq(items, IsStringFragment)
  IN [k \in 1..Len(frags) |-> frags[k].str]

IsNonEmpty(s) == s # <<>>

\* C22 (as claimed): the text of a page is all the string fragments of its
\* text content, in order, with one space between consecutive fragments.
C22_AllFragments ==
  /\ epc = "extractImages" =>
       pageText = Join(StringFragments(pageItems[Len(pageItems)]), <<" ">>)
  /\ \A k \in 1..Len(pages) :
       pages[k].text = Join(StringFragments(pageItems[k]), <<" ">>)

\* C22 (amended): the text of a page is the non-empty string fragments of
\* its text content, in order, with one space between consecutive ones.
C22_NonEmptyFragments ==
  /\ epc = "extractImages" =>
       pageText = Join(SelectSeq(StringFragments(pageItems[Len(pageItems)]),
                                 IsNonEmpty), <<" ">>)
  /\ \A k \in 1..Len(pages) :
       pages[k].text = Join(SelectSeq(StringFragments(pageItems[k]), IsNonEmpty),
                            <<" ">>)

\* a page with an empty fragment before a non-empty one has been pushed
C22_Witness ==
  \E k \in 1..Len(pages) :
    /\ Len(StringFragments(pageItems[k])) = 2
    /\ StringFragments(pageItems[k])[1] = <<>>
    /\ pages[k].text = <<"b">>

\* a page is fetched only when every page before it has been pushed
\* with its text and its images; the text content of a page is read before
\* its images are extracted; the loop variable goes up by one; the page in
\* work is the only one that is not pushed yet.
C23_Fetch ==
  (epc = "getPage" /\ epc' = "getTextContent") =>
    /\ Len(pages) = pageNum - 1
    /\ Len(pageItems) = pageNum - 1
    /\ Len(opListFailed) = pageNum - 1

C23_InWork ==
  /\ epc = "getTextContent" =>
       (Len(pages) = pageNum - 1 /\ Len(pageItems) = pageNum - 1)
  /\ epc = "extractImages" =>
       (Len(pages) = pageNum - 1 /\ Len(pageItems) = pageNum)
  /\ epc \in {"getPage", "done"} /\ opened => Len(pages) = pageNum - 1
  /\ \A k \in 1..Len(pages) : pages[k].pageNumber = k

\* C23: pages are processed in order and one at a time (the state part, the
\* fetch step and the loop variable together)
C23_OneByOne ==
  /\ []C23_InWork
  /\ [][C23_Fetch]_vars
  /\ [][opened => pageNum' \in {pageNum, pageNum + 1}]_vars

\* the second page is fetched after the first was pushed
C23_Witness ==
  /\ epc = "getTextContent" /\ pageNum = 2 /\ Len(pages) = 1
  /\ Len(pageItems) = 1

\* C26: the first paint operator with a name marks the name as seen, whether
\* or not an image is added; an operator whose name is seen adds no image
\* and calls no lookup; page.objs.get is called once for every seen name and
\* never twice with the same name.
C26_SeenAtFirstOccurrence ==
  /\ [](/\ lookups = seenImages
        /\ \A i, j \in 1..Len(lookups) : (i # j => lookups[i] # lookups[j]))
  /\ [][(/\ spc = "scan" /\ opIdx' = opIdx + 1
         /\ IsPaintImage(lastOp'.fn) /\ lastOp'.name # "")
        => IF InSeq(lastOp'.name, seenImages)
           THEN images' = images /\ lookups' = lookups /\ seenImages' = seenImages
           ELSE /\ seenImages' = Append(seenImages, lastOp'.name)
                /\ lookups' = Append(lookups, lastOp'.name)]_vars

\* the first occurrence of the name was skipped, and a later operator with
\* the same name whose image qualifies has added nothing
C26_Witness ==
  /\ opIdx = 2 /\ seenImages = <<lastOp.name>> /\ lastOp.name # ""
  /\ Qualifies(lastOp) /\ images = <<>>

\* line i of md is read outside a code block and is not a fence
OutsideBlock(md, i) == md[i].kind # "fence" /\ FencesBefore(md, i) % 2 = 0

\* the number of texts with the tag that the drawings start
TextsStarted(items, tag) ==
  Cardinality({i \in DOMAIN items :
                 IsWrapped(items[i]) /\ items[i].tag = tag /\ items[i].ln = 1})

C27_State ==
  rpc \in {"lines", "stamp", "saved"} =>
    /\ CodeSources(log) = ClosedBlockLines(markdown, 1, lineNo)
    /\ \A kind \in {"h1", "para"} :
         TextsStarted(log, kind) =
           Cardinality({i \in 1..lineNo :
                          markdown[i].kind = kind /\ OutsideBlock(markdown, i)})
    /\ (rpc # "lines" /\ inCodeBlock) =>
         \E f \in 1..Len(markdown) :
           /\ markdown[f].kind = "fence"
           /\ codeBlockContent = SubSeq(markdown, f + 1, Len(markdown))

C27_Step ==
  /\ (rpc = "lines" /\ lineNo' = lineNo + 1) =>
       LET ln == markdown[lineNo + 1]
       IN ((inCodeBlock /\ ln.kind # "fence")
           \/ (ln.kind = "fence" /\ codeBlockContent = <<>>))
          => (placed' = <<>> /\ log' = log /\ y' = y /\ pdfPages' = pdfPages)
  /\ (rpc \in {"lines", "stamp"} /\ rpc' \in {"stamp", "saved"}) =>
       (/\ log' = log /\ y' = y /\ pdfPages' = pdfPages
        /\ codeBlockContent' = codeBlockContent /\ inCodeBlock' = inCodeBlock)

\* C27: the lines buffered after an opening fence that is never closed are
\* not drawn, neither as code nor as headings or paragraphs, and do not move
\* the cursor, up to the end of the export; a fence read with an empty
\* buffer (the opening fence, or the closing fence of a block without lines)
\* draws nothing and leaves the cursor where it was.
C27_UnclosedBlock == []C27_State /\ [][C27_Step]_vars

\* the export ended inside a block that buffered a heading and another line,
\* after something was drawn before the fence
C27_Witness ==
  /\ rpc = "saved" /\ inCodeBlock /\ Len(codeBlockContent) = 2
  /\ codeBlockContent[1].kind = "h1" /\ codeBlockContent[2].kind = "para"
  /\ log # <<>> /\ TextsStarted(log, "h1") = 0

\* a block without lines was closed
C27_EmptyBlockWitness ==
  /\ rpc = "lines" /\ lineNo = 3 /\ ~inCodeBlock
  /\ markdown[2].kind = "fence" /\ markdown[3].kind = "fence"
  /\ placed = <<>> /\ log # <<>>

IsListMarker(item) == item.kind \in {"bullet", "marker"}

\* the height the cursor was at when the marker was drawn: the bullet is a
\* circle whose centre is 3 pt above the cursor
MarkerRow(item) == IF item.kind = "bullet" THEN item.y + 300 ELSE item.y

\* C28: in the report the marker of a list item is drawn where the
\* page-break check before it left the cursor, and the first line of the
\* item's text is drawn on the same page with the cursor at the same height:
\* no page break comes between the marker and the first line.
C28_MarkerWithFirstLine ==
  profile = "report" =>
    \A i \in DOMAIN placed :
      IsListMarker(placed[i]) =>
        /\ \/ MarkerRow(placed[i]) + 1600 <= BottomLimit
           \/ MarkerRow(placed[i]) = ReportTop
        /\ (i < Len(placed) /\ IsWrapped(placed[i + 1])) =>
             /\ placed[i + 1].ln = 1 /\ placed[i + 1].tag = placed[i].tag
             /\ placed[i + 1].page = placed[i].page
             /\ placed[i + 1].y = MarkerRow(placed[i])

\* the check before the marker started a new page, and the first line
\* follows the marker there
C28_Witness ==
  /\ profile = "report" /\ pdfPages = 2 /\ Len(placed) >= 2
  /\ placed[1].kind = "bullet" /\ placed[1].page = 2
  /\ MarkerRow(placed[1]) = ReportTop
  /\ placed[2].ln = 1 /\ placed[2].y = ReportTop

(***************************************************************************)
(* The Mendeley OAuth callback (CallbackClient.tsx) and the start of the   *)
(* flow (connectMendeley in page.tsx).  localStorage holds the expected    *)
(* state under rui.mendeley.state and the application state under          *)
(* rui.state.v1.                                                           *)
(***************************************************************************)
\* a property that is not there
Undefined == "<undefined>"
NoNumber == [given |-> FALSE, v |-> 0]
Num(n) == [given |-> TRUE, v |-> n]

\* the mendeley field of the application state
NoMendeley ==
  [present |-> FALSE, accessToken |-> Undefined, expiresAt |-> NoNumber,
   other |-> Undefined]
Mendeley(tok, exp, other) ==
  [present |-> TRUE, accessToken |-> tok, expiresAt |-> exp, other |-> other]

\* the application state: its mendeley field and the fields beside it
RuiState(other, m) == [kind |-> "json", other |-> other, mendeley |-> m]

\* what rui.state.v1 holds when the callback page opens
RuiStates ==
  { NoRuiState, [kind |-> "invalid"],
    RuiState("main, related", NoMendeley),
    RuiState("main, related", Mendeley(Undefined, NoNumber, Undefined)),
    RuiState("main, related", Mendeley("old", Num(7), "profile")) }

\* the state tokens connectMendeley can draw: newId() + newId()
StateTokens == {"s1", "s2"}

\* the parameters of a callback URL
CodeParams == {ParamNull, "", "c1"}
StateParams == {ParamNull, "", "s1", "s2"}

\* what the exchange request ends with: a rejection or a non-2xx answer, or
\* a body with or without access_token (a string) and expires_in (a number)
ExchangeFailed == [ok |-> FALSE, accessToken |-> Undefined, expiresIn |-> NoNumber]
ExchangeBody(tok, expiresIn) == [ok |-> TRUE, accessToken |-> tok, expiresIn |-> expiresIn]
ExchangeResponses ==
  {ExchangeFailed}
  \cup {ExchangeBody(t, e) : t \in {Undefined, "", "new"},
                             e \in {NoNumber, Num(0), Num(60)}}

\* Date.now() when the answer is handled
Clock == {1000, 2000}

\* a string is falsy when it is null or empty
Falsy(s) == s \in {ParamNull, StorageNull, Undefined, ""}

\* CallbackClient.tsx line 41: !state || !expectedState || state !== expectedState
StateMismatchNoCompare(st, expected) == Falsy(st) \/ Falsy(expected)
StateMismatch(st, expected) == Falsy(st) \/ Falsy(expected) \/ st # expected

\* lines 59-70: the application state written back with the token
WithToken(raw, tok, expiresAt) ==
  LET current == IF raw.kind = "json" THEN raw ELSE RuiState(Undefined, NoMendeley)
  IN RuiState(current.other,
              Mendeley(tok, expiresAt, current.mendeley.other))

\* line 61: expiresIn ? Date.now() + expiresIn * 1000 : undefined
ExpiresAt(expiresIn, now) ==
  IF expiresIn.given /\ expiresIn.v # 0 THEN Num(now + expiresIn.v * 1000)
  ELSE NoNumber

InitCallback ==
  /\ cbpc = "main" /\ cbCode = ParamNull /\ cbState = ParamNull
  /\ expectedState \in {StorageNull, "", "s1"}
  /\ ruiState \in RuiStates
  /\ exchangeSent = FALSE /\ cbStatus = "" /\ cbError = ""
  /\ ExtractIdle /\ ScanIdle /\ RenderIdle /\ TwiceIdle /\ FileNameIdle
  /\ MaintenanceIdle /\ ClassifyIdle /\ KeypadIdle /\ PersistIdle /\ RunsIdle

\* page.tsx lines 1479-1496: the state token is stored, then the
\* authorization URL is asked for and the browser leaves the page
ConnectMendeley ==
  /\ cbpc = "main"
  /\ \E tok \in StateTokens : expectedState' = tok
  /\ cbpc' = "authorizing"
  /\ UNCHANGED <<cbCode, cbState, ruiState, exchangeSent, cbStatus, cbError,
                 kvars, pvars, bvars, mvars, cvars, evars, svars, rvars, tvars,
                 fvars>>

\* the browser opens /callback with some query string (the provider's
\* redirect, or any other link to the page)
CallbackOpen ==
  /\ cbpc \in {"main", "authorizing"}
  /\ cbCode' \in CodeParams /\ cbState' \in StateParams
  /\ cbStatus' = "Finishing" /\ cbError' = ""
  /\ cbpc' = "mounted"
  /\ UNCHANGED <<expectedState, ruiState, exchangeSent,
                 kvars, pvars, bvars, mvars, cvars, evars, svars, rvars, tvars,
                 fvars>>

\* CallbackClient.tsx lines 32-49: the effect up to the request
CallbackEffect ==
  /\ cbpc = "mounted"
  /\ IF Falsy(cbCode)
     THEN /\ cbError' = "Missing authorization code."
          /\ cbpc' = "ended" /\ UNCHANGED <<exchangeSent, cbStatus>>
     ELSE IF StateMismatch(cbState, expectedState)
     THEN /\ cbError' = "State mismatch. Please try connecting again."
          /\ cbpc' = "ended" /\ UNCHANGED <<exchangeSent, cbStatus>>
     ELSE /\ cbStatus' = "Exchanging" /\ exchangeSent' = TRUE
          /\ cbpc' = "exchanging" /\ UNCHANGED cbError
  /\ UNCHANGED <<cbCode, cbState, expectedState, ruiState,
                 kvars, pvars, bvars, mvars, cvars, evars, svars, rvars, tvars,
                 fvars>>

\* lines 49-81: the request settles
ExchangeSettles ==
  /\ cbpc = "exchanging"
  /\ \E resp \in ExchangeResponses, now \in Clock :
       IF ~resp.ok
       THEN cbError' = "Request failed" /\ UNCHANGED <<ruiState, cbStatus>>
       ELSE IF Falsy(resp.accessToken)
       THEN cbError' = "No access_token returned" /\ UNCHANGED <<ruiState, cbStatus>>
       ELSE IF ruiState.kind = "invalid"
       THEN cbError' = "JSON.parse" /\ UNCHANGED <<ruiState, cbStatus>>
       ELSE /\ ruiState' = WithToken(ruiState, resp.accessToken,
                                     ExpiresAt(resp.expiresIn, now))
            /\ cbStatus' = "Connected" /\ UNCHANGED cbError
  /\ cbpc' = "ended"
  /\ UNCHANGED <<cbCode, cbState, expectedState, exchangeSent,
                 kvars, pvars, bvars, mvars, cvars, evars, svars, rvars, tvars,
                 fvars>>

NextCallback == ConnectMendeley \/ CallbackOpen \/ CallbackEffect \/ ExchangeSettles

SpecCallback == InitCallback /\ [][NextCallback]_vars

\* the callback URL carries a code and the state stored for the flow
GoodCallback ==
  /\ ~Falsy(cbCode) /\ ~Falsy(cbState) /\ ~Falsy(expectedState)
  /\ cbState = expectedState

C24_Gate ==
  /\ exchangeSent => GoodCallback
  /\ (cbpc = "ended" /\ ~GoodCallback) => (cbError # "" /\ ~exchangeSent)

C24_Write ==
  ruiState' # ruiState =>
    /\ exchangeSent /\ GoodCallback
    /\ ruiState'.kind = "json"
    /\ ~Falsy(ruiState'.mendeley.accessToken)

\* the fields beside mendeley and the fields of mendeley beside the token
\* and its expiry
OtherFields(raw) ==
  IF raw.kind = "json" THEN <<raw.other, raw.mendeley.other>>
  ELSE <<Undefined, Undefined>>

\* C24 (as claimed): the exchange is sent and the token written only for a
\* callback with a code and the expected non-empty state, otherwise an error
\* is shown; a write leaves every field but the access token as it was.
C24_OnlyTokenChanges ==
  /\ []C24_Gate
  /\ [][C24_Write]_vars
  /\ [][ruiState' # ruiState =>
          (/\ OtherFields(ruiState') = OtherFields(ruiState)
           /\ ruiState.kind = "json" =>
                ruiState'.mendeley.expiresAt = ruiState.mendeley.expiresAt)]_vars

\* C24 (amended): as claimed, but a write leaves every field as it was
\* except the access token and its expiry mendeley.expiresAt, which is set
\* from expires_in or removed.
C24_TokenAndExpiryChange ==
  /\ []C24_Gate
  /\ [][C24_Write]_vars
  /\ [][ruiState' # ruiState =>
          OtherFields(ruiState') = OtherFields(ruiState)]_vars

\* a token was written into a state that held other fields
C24_Witness ==
  /\ cbpc = "ended" /\ cbStatus = "Connected" /\ exchangeSent
  /\ ruiState.kind = "json" /\ ruiState.mendeley.accessToken = "new"
  /\ ruiState.mendeley.other = "profile" /\ ruiState.other = "main, related"
  /\ ~ruiState.mendeley.expiresAt.given

(***************************************************************************)
(* The keypad of MaintenancePage.tsx.  The page is shown by the wrapper    *)
(* while the session storage holds no bypass; a click is handled with the  *)
(* state of the last render.                                               *)
(***************************************************************************)
MAX_ATTEMPTS == 3

\* NEXT_PUBLIC_MAINTENANCE_SECRET_CODE || "" of the build
SecretCodes == {<<>>, <<"1">>, <<"1", "2">>, <<"2", "1", "1">>}

\* the digit keys pressed in the model
KeyDigits == {"1", "2"}

\* line 80: newAttempts >= MAX_ATTEMPTS
LockedAfterOver(newAttempts) == newAttempts > MAX_ATTEMPTS
LockedAfter(newAttempts) == newAttempts >= MAX_ATTEMPTS

\* line 89: code.slice(0, -1)
DropLast(s) == SubSeq(s, 1, Len(s) - 1)

InitKeypad ==
  /\ kpc = "shown" /\ secretCode \in SecretCodes
  /\ keyCode = <<>> /\ attempts = 0 /\ keyError = FALSE /\ locked = FALSE
  /\ lastKey = ""
  /\ mpc = "idle" /\ nodeEnv = "" /\ maintenanceMode = FALSE
  /\ bypassValue = StorageNull /\ bypassed = FALSE /\ checked = FALSE /\ view = ""
  /\ ExtractIdle /\ ScanIdle /\ RenderIdle /\ TwiceIdle /\ FileNameIdle
  /\ ClassifyIdle /\ CallbackIdle /\ PersistIdle /\ RunsIdle

KeypadOthers == <<nodeEnv, maintenanceMode, mpc, bypassed, checked, view, cvars,
                  avars, pvars, bvars, evars, svars, rvars, tvars, fvars>>

\* lines 61-85: handleKeyPress; the entered code is not longer than MaxKeyed
\* (with an empty SECRET_CODE it would grow with every press)
HandleKeyPress ==
  /\ kpc = "shown"
  /\ \E digit \in KeyDigits :
       /\ lastKey' = digit
       /\ IF locked
          THEN UNCHANGED <<keyCode, attempts, keyError, locked, bypassValue, kpc>>
          ELSE LET newCode == Append(keyCode, digit)
               IN /\ Len(newCode) <= MaxKeyed
                  /\ IF Len(newCode) = Len(secretCode)
                     THEN IF newCode = secretCode
                          THEN /\ bypassValue' = "true"
                               /\ kpc' = "reloading"
                               /\ keyCode' = newCode /\ keyError' = FALSE
                               /\ UNCHANGED <<attempts, locked>>
                          ELSE /\ attempts' = attempts + 1
                               /\ keyError' = TRUE
                               /\ keyCode' = <<>>
                               /\ locked' = LockedAfter(attempts + 1)
                               /\ UNCHANGED <<bypassValue, kpc>>
                     ELSE /\ keyCode' = newCode /\ keyError' = FALSE
                          /\ UNCHANGED <<attempts, locked, bypassValue, kpc>>
  /\ UNCHANGED <<secretCode, KeypadOthers>>

\* lines 87-91: handleDelete
HandleDelete ==
  /\ kpc = "shown"
  /\ lastKey' = "delete"
  /\ IF locked THEN UNCHANGED <<keyCode, keyError>>
     ELSE keyCode' = DropLast(keyCode) /\ keyError' = FALSE
  /\ UNCHANGED <<kpc, secretCode, attempts, locked, bypassValue, KeypadOthers>>

\* lines 93-97: handleClear
HandleClear ==
  /\ kpc = "shown"
  /\ lastKey' = "C"
  /\ IF locked THEN UNCHANGED <<keyCode, keyError>>
     ELSE keyCode' = <<>> /\ keyError' = FALSE
  /\ UNCHANGED <<kpc, secretCode, attempts, locked, bypassValue, KeypadOthers>>

\* the page is loaded again without a bypass in the session storage: the
\* component is mounted with its initial state (lines 29-32)
KeypadReload ==
  /\ kpc = "shown"
  /\ keyCode' = <<>> /\ attempts' = 0 /\ keyError' = FALSE /\ locked' = FALSE
  /\ lastKey' = "reload"
  /\ UNCHANGED <<kpc, secretCode, bypassValue, KeypadOthers>>

NextKeypad == HandleKeyPress \/ HandleDelete \/ HandleClear \/ KeypadReload

SpecKeypad == InitKeypad /\ [][NextKeypad]_vars

IsPress == lastKey' # "reload"

C25_State ==
  /\ attempts <= MAX_ATTEMPTS
  /\ locked <=> attempts = MAX_ATTEMPTS
  /\ bypassValue \in {StorageNull, "true"}

C25_Press ==
  IsPress =>
    /\ locked =>
         (/\ locked' /\ keyCode' = keyCode /\ attempts' = attempts
          /\ bypassValue' = bypassValue)
    /\ attempts' # attempts =>
         (/\ attempts' = attempts + 1
          /\ lastKey' \in KeyDigits
          /\ Len(keyCode) + 1 = Len(secretCode)
          /\ Append(keyCode, lastKey') # secretCode
          /\ keyCode' = <<>>)
    /\ bypassValue' # bypassValue =>
         (/\ bypassValue' = "true" /\ ~locked
          /\ lastKey' \in KeyDigits
          /\ Append(keyCode, lastKey') = secretCode)

\* C25: the attempt counter is at most MAX_ATTEMPTS and the keypad is locked
\* exactly when it has reached it; no press on the locked keypad changes the
\* entered code, the counter, the lock or the bypass flag; the counter goes
\* up by one on a complete wrong code only; the bypass flag is written only
\* when the entered digits are the secret code.
C25_Keypad == []C25_State /\ [][C25_Press]_vars

\* the third wrong code has locked the keypad and a digit was pressed after
C25_Witness ==
  /\ locked /\ attempts = 3 /\ lastKey \in KeyDigits /\ keyCode = <<>>
  /\ Len(secretCode) = 2 /\ keyError /\ bypassValue = StorageNull

\* the flag was written
C25_BypassWitness ==
  /\ bypassValue = "true" /\ kpc = "reloading" /\ attempts = 2
  /\ keyCode = secretCode

(***************************************************************************)
(* usePersistedState.ts, as used by Home (page.tsx line 1345) with the     *)
(* key "rui.state.v1" and DEFAULT_STATE.  A state is a render that was     *)
(* committed; its passive effects run together, the read effect before the *)
(* write effect, and before the next render.  A value is named by one      *)
(* letter; JSON.stringify gives its text, JSON.parse reads the text back   *)
(* (also from another spelling) and throws on what is no JSON.             *)
(***************************************************************************)
StateKey == "rui.state.v1"
MendeleyStateKey == "rui.mendeley.state"
StorageKeys == {StateKey, MendeleyStateKey}

DefaultValue == "D"
Values == {"D", "A", "B"}

Stringify(v) == "{" \o v \o "}"
Spaced(v) == "{ " \o v \o " }"
NotJson == "{A"
ParseThrows(raw) == raw \notin {Stringify(v) : v \in Values} \cup {Spaced(v) : v \in Values}
Parse(raw) == CHOOSE v \in Values : raw \in {Stringify(v), Spaced(v)}

StoredRaws ==
  {StorageNull, "", NotJson, Stringify("A"), Spaced("A"), Stringify("D"),
   Spaced("B")}

\* line 21: if (!hydrated) return
WriteAllowedAlways(h) == TRUE
WriteAllowed(h) == h

\* line 12: if (raw)
Truthy(raw) == raw \notin {StorageNull, ""}

\* a stored string the read effect takes over
Usable(raw) == Truthy(raw) /\ ~ParseThrows(raw)

InitPersist ==
  /\ hpc = "effects"
  /\ store \in [StorageKeys -> StoredRaws]
  /\ store[MendeleyStateKey] \in {StorageNull, Stringify("A")}
  /\ blocked \in BOOLEAN
  /\ hydrated = FALSE /\ value = DefaultValue /\ origin = "default"
  /\ queued = NoUpdate
  /\ loaded = store[StateKey]
  /\ reads = 0 /\ sets = 0 /\ lastWrite = NoWrite
  /\ ExtractIdle /\ ScanIdle /\ RenderIdle /\ TwiceIdle /\ FileNameIdle
  /\ MaintenanceIdle /\ ClassifyIdle /\ CallbackIdle /\ KeypadIdle /\ RunsIdle

PersistOthers == <<avars, kvars, bvars, mvars, cvars, evars, svars, rvars, tvars,
                   fvars>>

\* lines 9-18: the read effect (deps [key]: it runs after the first commit)
ReadEffect(q) ==
  LET raw == store[StateKey]
      q1 == IF ~blocked /\ Usable(raw)
            THEN [q EXCEPT !.dirty = TRUE, !.value = Parse(raw),
                           !.origin = "storage"]
            ELSE q
  IN [q1 EXCEPT !.dirty = TRUE, !.hydrated = TRUE]

\* the updates queued on the state of the last commit
Pending == IF queued.dirty THEN queued
           ELSE [dirty |-> FALSE, hydrated |-> hydrated, value |-> value,
                 origin |-> origin]

\* the passive effects of a commit: lines 9-18, then lines 20-27
RunEffects ==
  /\ hpc = "effects"
  /\ LET mounting == reads = 0
     IN /\ reads' = IF mounting THEN 1 ELSE reads
        /\ queued' = IF mounting THEN ReadEffect(Pending) ELSE queued
        /\ IF WriteAllowed(hydrated)
           THEN \E ok \in BOOLEAN :
                  /\ blocked => ~ok
                  /\ lastWrite' = [done |-> TRUE, key |-> StateKey,
                                   raw |-> Stringify(value), ok |-> ok]
                  /\ store' = IF ok THEN [store EXCEPT ![StateKey] = Stringify(value)]
                              ELSE store
           ELSE UNCHANGED <<store, lastWrite>>
        /\ hpc' = IF queued'.dirty THEN "render" ELSE "settled"
  /\ UNCHANGED <<blocked, hydrated, value, origin, loaded, sets, PersistOthers>>

\* a render with the queued updates, and its commit
PersistRender ==
  /\ hpc = "render"
  /\ hydrated' = queued.hydrated /\ value' = queued.value
  /\ origin' = queued.origin
  /\ queued' = NoUpdate
  /\ hpc' = "effects"
  /\ UNCHANGED <<store, blocked, loaded, reads, sets, lastWrite, PersistOthers>>

\* setValue of the component: the page shows its controls only when hydrated
\* (page.tsx line 2020); every setter call makes a new object
SetValue ==
  /\ hpc \in {"effects", "render", "settled"}
  /\ hydrated
  /\ sets < MaxSets
  /\ \E v \in Values :
       queued' = [Pending EXCEPT !.dirty = TRUE, !.value = v, !.origin = "setter"]
  /\ sets' = sets + 1
  /\ hpc' = IF hpc = "settled" THEN "render" ELSE hpc
  /\ UNCHANGED <<store, blocked, hydrated, value, origin, loaded, reads,
                 lastWrite, PersistOthers>>

NextPersist == RunEffects \/ PersistRender \/ SetValue

SpecPersist == InitPersist /\ [][NextPersist]_vars

\* no setItem before the getItem, and none while hydrated is false
C29_ReadFirst ==
  /\ lastWrite.done => reads > 0
  /\ (hydrated \/ queued.hydrated) => reads > 0
  /\ \A k \in StorageKeys \ {StateKey} : store[k] \in {StorageNull, Stringify("A")}

C29_WriteStep ==
  /\ lastWrite' # lastWrite => hydrated /\ lastWrite'.key = StateKey
  /\ store' # store =>
       /\ \A k \in StorageKeys \ {StateKey} : store'[k] = store[k]
       /\ lastWrite'.done /\ lastWrite'.ok
       /\ store'[StateKey] = Stringify(value)

\* the statement as made: what is stored is never replaced by the default,
\* and once hydrated the storage holds the value of every settled state
C29_DefaultNeverOverwrites ==
  [][store[StateKey] # StorageNull /\ store' # store => origin # "default"]_vars

C29_EveryChangeStored ==
  (hpc = "settled" /\ hydrated) => store[StateKey] = Stringify(value)

C29_AsStated ==
  /\ []C29_ReadFirst /\ [][C29_WriteStep]_vars
  /\ C29_DefaultNeverOverwrites /\ []C29_EveryChangeStored

C29_UsableStep ==
  (Usable(store[StateKey]) /\ store' # store) => origin # "default"

C29_Offered ==
  (hpc = "settled" /\ hydrated) =>
     /\ lastWrite.done /\ lastWrite.key = StateKey
     /\ lastWrite.raw = Stringify(value)
     /\ lastWrite.ok => store[StateKey] = Stringify(value)
     /\ (sets = 0 /\ Usable(loaded) /\ ~blocked) => value = Parse(loaded)

\* C29: localStorage.setItem is not called before getItem and not while
\* hydrated is false, and only for the key of the hook; the default never
\* replaces a stored string that is non-empty JSON (a stored value comes back
\* as the value of the hook); once hydrated, the value of every commit is
\* handed to setItem under the same key and is stored when setItem does not
\* throw.
C29_Hydration ==
  /\ []C29_ReadFirst /\ [][C29_WriteStep]_vars
  /\ [][C29_UsableStep]_vars /\ []C29_Offered

\* a stored value was read, written back, and a later change was stored
C29_Witness ==
  /\ hpc = "settled" /\ hydrated /\ loaded = Spaced("B") /\ sets = 2
  /\ value = "A" /\ store[StateKey] = Stringify("A") /\ origin = "setter"

\* the default has replaced a stored string that is no JSON
C29_OverwriteWitness ==
  /\ loaded = NotJson /\ store[StateKey] = Stringify(DefaultValue)
  /\ origin = "default" /\ sets = 0 /\ hpc = "settled"

(***************************************************************************)
(* runStructured, runCompare and runFinal of Home (page.tsx).  Nothing     *)
(* disables the buttons while busy, so invocations overlap; each has its   *)
(* own completed and timeouts.  A timer callback is a task of its own; the *)
(* code from the settled await to the end of finally runs without a task   *)
(* in between.  The answer of the analysis route is an input.              *)
(***************************************************************************)
RunKinds == {"structured", "compare", "final"}

\* the number of progressMessages of each function
StructuredMessages == 11
CompareMessages == 7
FinalMessages == 9

\* the timers of an invocation in the model: the first MaxProgress of them
ProgressCount(kind) ==
  LET n == CASE kind = "structured" -> StructuredMessages
             [] kind = "compare" -> CompareMessages
             [] OTHER -> FinalMessages
  IN IF n <= MaxProgress THEN n ELSE MaxProgress

BusyNull == ""
BusyText(kind) ==
  CASE kind = "structured" -> "Running structured analysis"
    [] kind = "compare" -> "Running comparative analysis"
    [] OTHER -> "Generating final critical analysis"

RunSlots == {1, 2}

NoRun == [pc |-> "idle", id |-> 0, kind |-> "", completed |-> FALSE,
          pending |-> {}]

\* what postJson and the handling of its answer can do: the answer is
\* handled, the handling throws (an answer without usage or result), or
\* postJson rejects
Outcomes == {"ok", "malformed", "rejected"}

LogEntry(id, text) == [run |-> id, text |-> text]

\* the preconditions before setBusy fail: error, return, the log is cleared
RunRefused ==
  /\ started < MaxRuns
  /\ started' = started + 1
  /\ logMessages' = <<>>
  /\ UNCHANGED <<runs, busy>>

\* the function up to the await: clearLog, setBusy, the first addLog calls,
\* setTimeout for every progress message, the request
RunStart(slot, kind) ==
  /\ runs[slot].pc \in {"idle", "done"}
  /\ started < MaxRuns
  /\ started' = started + 1
  /\ busy' = BusyText(kind)
  /\ logMessages' = <<LogEntry(started + 1, "start"), LogEntry(started + 1, "sending")>>
  /\ runs' = [runs EXCEPT ![slot] =
                [pc |-> "waiting", id |-> started + 1, kind |-> kind,
                 completed |-> FALSE, pending |-> 1 .. ProgressCount(kind)]]

\* the callback of a timer: if (!completed) addLog(msg).  Timers of one
\* invocation fire in the order of their delays; one that was cleared never
\* fires.
TimerFires(slot) ==
  /\ runs[slot].pending # {}
  /\ LET r == runs[slot]
         k == CHOOSE k \in r.pending : \A j \in r.pending : k <= j
     IN /\ runs' = [runs EXCEPT ![slot].pending = @ \ {k}]
        /\ logMessages' = IF ~r.completed
                          THEN Append(logMessages, LogEntry(r.id, "progress"))
                          ELSE logMessages
  /\ UNCHANGED <<busy, started>>

\* completed = true; timeouts.forEach(clearTimeout)
OnSettledNothing(r) == r
OnSettled(r) == [r EXCEPT !.completed = TRUE, !.pending = {}]

\* the logs after the await
SettledLogs(id, outcome) ==
  CASE outcome = "ok" -> <<LogEntry(id, "received"), LogEntry(id, "complete")>>
    [] outcome = "malformed" -> <<LogEntry(id, "received"), LogEntry(id, "error")>>
    [] OTHER -> <<LogEntry(id, "error")>>

\* the await settles: the rest of try, or catch, and finally
RequestSettles(slot) ==
  /\ runs[slot].pc = "waiting"
  /\ \E outcome \in Outcomes :
       /\ runs' = [runs EXCEPT ![slot] = [OnSettled(@) EXCEPT !.pc = "done"]]
       /\ logMessages' = logMessages \o SettledLogs(runs[slot].id, outcome)
  /\ busy' = BusyNull
  /\ UNCHANGED started

RunOthers == <<avars, kvars, pvars, mvars, cvars, evars, svars, rvars, tvars, fvars>>

InitRuns ==
  /\ runs = [s \in RunSlots |-> NoRun]
  /\ busy = BusyNull /\ logMessages = <<>> /\ started = 0
  /\ ExtractIdle /\ ScanIdle /\ RenderIdle /\ TwiceIdle /\ FileNameIdle
  /\ MaintenanceIdle /\ ClassifyIdle /\ CallbackIdle /\ KeypadIdle /\ PersistIdle

NextRuns ==
  \/ RunRefused /\ UNCHANGED RunOthers
  \/ \E slot \in RunSlots, kind \in RunKinds : RunStart(slot, kind) /\ UNCHANGED RunOthers
  \/ \E slot \in RunSlots : TimerFires(slot) /\ UNCHANGED RunOthers
  \/ \E slot \in RunSlots : RequestSettles(slot) /\ UNCHANGED RunOthers

SpecRuns == InitRuns /\ [][NextRuns]_vars

Waiting(id) == \E s \in RunSlots : runs[s].id = id /\ runs[s].pc = "waiting"

\* in the log no progress message of an invocation follows a message of its
\* settled request; a settled invocation has completed set and no timer left;
\* busy is null when no invocation waits
C30_State ==
  /\ \A j, k \in 1 .. Len(logMessages) :
       (/\ j < k /\ logMessages[k].text = "progress"
        /\ logMessages[j].run = logMessages[k].run)
       => logMessages[j].text \in {"start", "sending", "progress"}
  /\ \A s \in RunSlots :
       runs[s].pc = "done" => runs[s].completed /\ runs[s].pending = {}
  /\ (\A s \in RunSlots : runs[s].pc # "waiting") => busy = BusyNull

C30_Step ==
  /\ \A id \in 1 .. MaxRuns + 1 :
       logMessages' = Append(logMessages, LogEntry(id, "progress")) => Waiting(id)
  /\ \A s \in RunSlots :
       (runs[s].pc = "waiting" /\ runs'[s].pc = "done") => busy' = BusyNull

\* C30: a progress message is appended to the activity log only while the
\* request of its invocation has not settled, in every order of timer
\* callbacks and answers; the step that handles the settled request (answer
\* handled, handling failed, or request failed) sets busy to null.
C30_NoLateProgress == []C30_State /\ [][C30_Step]_vars

\* an answer arrived after one of the timers, another invocation still waits
C30_Witness ==
  \E s, t \in RunSlots :
    /\ runs[s].pc = "done" /\ runs[t].pc = "waiting" /\ busy = BusyNull
    /\ \E j, k \in 1 .. Len(logMessages) :
         /\ j < k /\ logMessages[j] = LogEntry(runs[s].id, "progress")
         /\ logMessages[k] = LogEntry(runs[s].id, "error")

\* every timer of an invocation fired before its answer
C30_AllFiredWitness ==
  \E s \in RunSlots :
    /\ runs[s].pc = "done" /\ runs[s].kind = "final"
    /\ Len(logMessages) = 4 + MaxProgress
    /\ logMessages[Len(logMessages)].text = "complete"

============================================================================
